---- MODULE Spec2Model ----
(***************************************************************************)
(* Model of the PA racing feed decoders (greyhounds/racing.go,             *)
(* greyhounds/util.go and the horse racing card decoder).                  *)
(*                                                                         *)
(* An XML element is a record [attrs, kids, text]: attrs is the sequence   *)
(* of the element's attributes in document order (records [name, value]),  *)
(* kids the sequence of its child elements in document order (records      *)
(* [tag, el]), text its character data.  Attribute values and literals     *)
(* are strings.  Every decoder                                             *)
(* of the source is an operator from its input to a record [err, val];     *)
(* the state machine calls one decoder per step on an input drawn from a   *)
(* bounded set and records the call and its outcome in (op, arg, res),     *)
(* until the call returns.                                                 *)
(*                                                                         *)
(* time.Time is the record [year, month, day, hour, min, sec, nsec, off]   *)
(* (off: zone offset in seconds east of UTC).  time.Duration is counted    *)
(* in milliseconds, the finest unit parseDuration produces.                *)
(***************************************************************************)
EXTENDS Integers, Sequences, FiniteSets, TLC

VARIABLES op, arg, res

vars == <<op, arg, res>>

(***************************************************************************)
(* Bounds of the model                                                     *)
(***************************************************************************)
\* longest temporal literal tried (the longest accepted shape has 20 characters)
MaxLitLen == 22
\* most digits before the decimal point of a duration literal
MaxWholeDigits == 5
\* most digits after the decimal point of a duration literal
MaxFracDigits == 4

(***************************************************************************)
(* Strings and numbers                                                     *)
(***************************************************************************)
DigitStr == <<"0", "1", "2", "3", "4", "5", "6", "7", "8", "9">>

isDigit(c) == \E i \in 1..10 : DigitStr[i] = c

DigitVal(c) == (CHOOSE i \in 1..10 : DigitStr[i] = c) - 1

Drop(s, n) == SubSeq(s, n + 1, Len(s))

Take(s, n) == SubSeq(s, 1, n)

CharAt(s, i) == SubSeq(s, i, i)

AllDigits(s) == \A i \in 1..Len(s) : isDigit(CharAt(s, i))

RECURSIVE AtoiAcc(_, _)
AtoiAcc(s, acc) ==
    IF s = "" THEN acc ELSE AtoiAcc(Drop(s, 1), acc * 10 + DigitVal(Take(s, 1)))

\* value of a non-empty string of decimal digits
Atoi(s) == AtoiAcc(s, 0)

Pad2(n) == DigitStr[(n \div 10) + 1] \o DigitStr[(n % 10) + 1]

Pad4(n) == Pad2(n \div 100) \o Pad2(n % 100)

RECURSIVE CountChar(_, _)
CountChar(s, c) ==
    IF s = "" THEN 0
    ELSE (IF Take(s, 1) = c THEN 1 ELSE 0) + CountChar(Drop(s, 1), c)

RECURSIVE Pow10(_)
Pow10(k) == IF k = 0 THEN 1 ELSE 10 * Pow10(k - 1)

RECURSIVE Concat(_)
Concat(ss) == IF ss = <<>> THEN "" ELSE Head(ss) \o Concat(Tail(ss))

\* all strings of length lo..hi over the characters of the set alphabet
StringsOver(alphabet, lo, hi) ==
    UNION { { Concat(f) : f \in [1..n -> alphabet] } : n \in lo..hi }

(***************************************************************************)
(* Errors.  A nil error is Nil; every other error is a record whose kind   *)
(* names the place that makes it and whose other fields are the parts of   *)
(* its message.                                                            *)
(***************************************************************************)
Nil == [kind |-> "nil"]

(***************************************************************************)
(* time.Time and time.Parse (standard library), for the eight layouts the  *)
(* decoder uses.  A layout is the sequence of its elements.                *)
(***************************************************************************)
\* the zero time.Time: January 1, year 1, 00:00:00 UTC
ZeroTime ==
    [year |-> 1, month |-> 1, day |-> 1, hour |-> 0, min |-> 0, sec |-> 0,
     nsec |-> 0, off |-> 0]

isLeap(y) == y % 4 = 0 /\ (y % 100 # 0 \/ y % 400 = 0)

daysIn(m, y) ==
    IF m = 2 THEN (IF isLeap(y) THEN 29 ELSE 28)
    ELSE IF m \in {4, 6, 9, 11} THEN 30 ELSE 31

\* fields time.Parse starts from: what the layout omits is zero or, for
\* month and day, one
ParseStart ==
    [bad |-> FALSE, year |-> 0, month |-> 1, day |-> 1, hour |-> 0, min |-> 0,
     sec |-> 0, off |-> 0]

ParseBad == [ParseStart EXCEPT !.bad = TRUE]

RECURSIVE parseLayout(_, _, _)
parseLayout(layout, value, acc) ==
    IF layout = <<>>
    THEN IF value # "" THEN ParseBad                       \* extra text
         ELSE IF acc.day < 1 \/ acc.day > daysIn(acc.month, acc.year)
              THEN ParseBad                                \* day out of range
              ELSE acc
    ELSE
    LET e == Head(layout)
        rest == Tail(layout)
        two == Take(value, 2)
        twoOk == Len(value) >= 2 /\ AllDigits(two)
    IN  CASE e = "2006" ->
               IF Len(value) >= 4 /\ AllDigits(Take(value, 4))
               THEN parseLayout(rest, Drop(value, 4),
                                [acc EXCEPT !.year = Atoi(Take(value, 4))])
               ELSE ParseBad
          [] e = "01" ->
               IF twoOk /\ Atoi(two) >= 1 /\ Atoi(two) <= 12
               THEN parseLayout(rest, Drop(value, 2), [acc EXCEPT !.month = Atoi(two)])
               ELSE ParseBad
          [] e = "02" ->
               IF twoOk
               THEN parseLayout(rest, Drop(value, 2), [acc EXCEPT !.day = Atoi(two)])
               ELSE ParseBad
          [] e = "15" ->
               \* getnum(value, false): one digit is taken when no second follows
               IF twoOk
               THEN IF Atoi(two) < 24
                    THEN parseLayout(rest, Drop(value, 2), [acc EXCEPT !.hour = Atoi(two)])
                    ELSE ParseBad
               ELSE IF Len(value) >= 1 /\ isDigit(Take(value, 1))
                    THEN parseLayout(rest, Drop(value, 1),
                                     [acc EXCEPT !.hour = Atoi(Take(value, 1))])
                    ELSE ParseBad
          [] e = "04" ->
               IF twoOk /\ Atoi(two) < 60
               THEN parseLayout(rest, Drop(value, 2), [acc EXCEPT !.min = Atoi(two)])
               ELSE ParseBad
          [] e = "05" ->
               IF twoOk /\ Atoi(two) < 60
               THEN parseLayout(rest, Drop(value, 2), [acc EXCEPT !.sec = Atoi(two)])
               ELSE ParseBad
          [] e = "-0700" ->
               LET sign == Take(value, 1)
                   hh == SubSeq(value, 2, 3)
                   mm == SubSeq(value, 4, 5)
               IN  IF /\ Len(value) >= 5
                      /\ sign \in {"+", "-"}
                      /\ AllDigits(hh) /\ AllDigits(mm)
                      /\ Atoi(hh) <= 24 /\ Atoi(mm) <= 60
                   THEN parseLayout(rest, Drop(value, 5),
                            [acc EXCEPT !.off =
                                (IF sign = "-" THEN -1 ELSE 1)
                                    * (Atoi(hh) * 60 + Atoi(mm)) * 60])
                   ELSE ParseBad
          [] OTHER ->
               \* a literal character of the layout ("T", "/", "-")
               IF Len(value) >= 1 /\ Take(value, 1) = e
               THEN parseLayout(rest, Drop(value, 1), acc)
               ELSE ParseBad

\* time.Parse(layout, value): [ok, tm]
timeParse(layout, value) ==
    LET result(p) ==
            IF p.bad THEN [ok |-> FALSE, tm |-> ZeroTime]
            ELSE [ok |-> TRUE,
                  tm |-> [year |-> p.year, month |-> p.month, day |-> p.day,
                          hour |-> p.hour, min |-> p.min, sec |-> p.sec,
                          nsec |-> 0, off |-> p.off]]
    IN  result(parseLayout(layout, value, ParseStart))

\* timeSwitch without the "/" case of length 10
timeSwitch_DashOnly(value) ==
    LET n == Len(value)
    IN  CASE n = 8 -> timeParse(<<"2006", "01", "02">>, value)
          [] n = 9 -> timeParse(<<"15", "04", "-0700">>, value)
          [] n = 10 -> timeParse(<<"02", "-", "01", "-", "2006">>, value)
          [] n = 11 -> timeParse(<<"15", "04", "05", "-0700">>, value)
          [] n = 17 -> timeParse(<<"2006", "01", "02", "15", "04", "-0700">>, value)
          [] n = 18 -> timeParse(<<"2006", "01", "02", "T", "15", "04", "-0700">>, value)
          [] n = 19 -> timeParse(<<"2006", "01", "02", "15", "04", "05", "-0700">>, value)
          [] n = 20 ->
               timeParse(<<"2006", "01", "02", "T", "15", "04", "05", "-0700">>, value)
          [] OTHER -> [ok |-> TRUE, tm |-> ZeroTime]

\* the switch on len(attr.Value); a length without a case leaves tm the zero
\* time and err nil
timeSwitch(value) ==
    LET n == Len(value)
    IN  CASE n = 8 -> timeParse(<<"2006", "01", "02">>, value)
          [] n = 9 -> timeParse(<<"15", "04", "-0700">>, value)
          [] n = 10 ->
               IF CountChar(value, "/") + 1 = 3
               THEN timeParse(<<"02", "/", "01", "/", "2006">>, value)
               ELSE timeParse(<<"02", "-", "01", "-", "2006">>, value)
          [] n = 11 -> timeParse(<<"15", "04", "05", "-0700">>, value)
          [] n = 17 -> timeParse(<<"2006", "01", "02", "15", "04", "-0700">>, value)
          [] n = 18 -> timeParse(<<"2006", "01", "02", "T", "15", "04", "-0700">>, value)
          [] n = 19 -> timeParse(<<"2006", "01", "02", "15", "04", "05", "-0700">>, value)
          [] n = 20 -> timeParse(<<"2006", "01", "02", "T", "15", "04", "05", "-0700">>, value)
          [] OTHER -> [ok |-> TRUE, tm |-> ZeroTime]

\* xmlTimeElement.UnmarshalXMLAttr on the attribute name="value", the target
\* holding t0 before the call: [err, val]
xmlTimeElementUnmarshalXMLAttr(name, value, t0) ==
    LET result(p) ==
            IF ~p.ok
            THEN [err |-> [kind |-> "time", attr |-> name, value |-> value],
                  val |-> t0]
            ELSE [err |-> Nil, val |-> p.tm]
    IN  result(timeSwitch(value))

\* addDate in the zone of the date
addDate_DateZone(t, date) ==
    [year |-> date.year, month |-> date.month, day |-> date.day,
     hour |-> t.hour, min |-> t.min, sec |-> t.sec, nsec |-> 0, off |-> date.off]

\* addDate(t, date)
addDate(t, date) ==
    [year |-> date.year, month |-> date.month, day |-> date.day,
     hour |-> t.hour, min |-> t.min, sec |-> t.sec, nsec |-> 0, off |-> t.off]

(***************************************************************************)
(* Durations.  decimal.FromString and Number.ScaledVal belong to the       *)
(* decimal library; they are modelled by what TestParseDuration shows of   *)
(* them: a literal of digits with an optional fraction is a number, whose  *)
(* scaled value is truncated, and any other literal is strconv's ParseInt  *)
(* error on that literal.  A Number keeps its digits: [whole, frac].       *)
(***************************************************************************)
Millisecond == 1

Second == 1000

Minute == 60000

Hour == 3600000

IsDecimal(s) ==
    LET dots == CountChar(s, ".")
        at == CHOOSE i \in 1..Len(s) : CharAt(s, i) = "."
    IN  /\ s # ""
        /\ dots <= 1
        /\ IF dots = 0 THEN AllDigits(s)
           ELSE /\ at > 1 /\ at < Len(s)
                /\ AllDigits(Take(s, at - 1))
                /\ AllDigits(Drop(s, at))

\* decimal.FromString taking every literal that is not a number for zero
decimalFromString_Lenient(s) ==
    IF IsDecimal(s)
    THEN IF CountChar(s, ".") = 0
         THEN [err |-> Nil, n |-> [whole |-> s, frac |-> ""]]
         ELSE LET at == CHOOSE i \in 1..Len(s) : CharAt(s, i) = "."
              IN  [err |-> Nil, n |-> [whole |-> Take(s, at - 1), frac |-> Drop(s, at)]]
    ELSE [err |-> Nil, n |-> [whole |-> "0", frac |-> ""]]

\* decimal.FromString(s): [err, n]
decimalFromString(s) ==
    IF IsDecimal(s)
    THEN IF CountChar(s, ".") = 0
         THEN [err |-> Nil, n |-> [whole |-> s, frac |-> ""]]
         ELSE LET at == CHOOSE i \in 1..Len(s) : CharAt(s, i) = "."
              IN  [err |-> Nil, n |-> [whole |-> Take(s, at - 1), frac |-> Drop(s, at)]]
    ELSE [err |-> [kind |-> "NumError", func |-> "ParseInt", num |-> s],
          n |-> [whole |-> "0", frac |-> ""]]

RECURSIVE Zeros(_)
Zeros(k) == IF k = 0 THEN "" ELSE "0" \o Zeros(k - 1)

\* ScaledVal dropping the fraction of the number
ScaledVal_WholeOnly(n, scale) ==
    IF scale >= 0
    THEN IF Len(n.whole) <= scale THEN 0
         ELSE Atoi(Take(n.whole, Len(n.whole) - scale))
    ELSE Atoi(n.whole \o Zeros(-scale))

\* n.ScaledVal(scale): the value of n in units of 10^scale, truncated
ScaledVal(n, scale) ==
    IF scale >= 0
    THEN IF Len(n.whole) <= scale THEN 0
         ELSE Atoi(Take(n.whole, Len(n.whole) - scale))
    ELSE Atoi(n.whole \o Take(n.frac \o Zeros(-scale), -scale))

\* parseDuration without its case for the empty literal
parseDuration_NoEmptyCase(s) ==
    LET convert(n, err) ==
            IF err # Nil THEN [err |-> err, val |-> 0]
            ELSE [err |-> err,
                  val |-> Hour * (ScaledVal(n, 4) % 100) + Minute * (ScaledVal(n, 2) % 100)
                          + Second * (ScaledVal(n, 0) % 100)
                          + Millisecond * (ScaledVal(n, -3) % 1000)]
        from(d) == convert(d.n, d.err)
    IN  from(decimalFromString(s))

\* parseDuration(s): [err, val]
parseDuration(s) ==
    IF s = "" THEN [err |-> Nil, val |-> 0]
    ELSE
    LET convert(n, err) ==
            LET hour == ScaledVal(n, 4) % 100
                mins == ScaledVal(n, 2) % 100
                secs == ScaledVal(n, 0) % 100
                mils == ScaledVal(n, -3) % 1000
            IN  IF err # Nil THEN [err |-> err, val |-> 0]
                ELSE [err |-> err,
                      val |-> Hour * hour + Minute * mins + Second * secs
                              + Millisecond * mils]
        from(d) == convert(d.n, d.err)
    IN  from(decimalFromString(s))

(***************************************************************************)
(* Yes/No tokens                                                           *)
(***************************************************************************)
\* the Yes/No decoder taking the tokens in capitals too
xmlYesNo_AnyCase(name, value, b0) ==
    CASE value \in {"yes", "Yes", "YES"} -> [err |-> Nil, val |-> TRUE]
      [] value \in {"no", "No", "NO"} -> [err |-> Nil, val |-> FALSE]
      [] OTHER -> [err |-> [kind |-> "yesno", attr |-> name, value |-> value],
                   val |-> b0]

\* xmlYesNo.UnmarshalXMLAttr on the attribute name="value", the target
\* holding b0 before the call: [err, val]
xmlYesNoUnmarshalXMLAttr(name, value, b0) ==
    CASE value \in {"yes", "Yes"} -> [err |-> Nil, val |-> TRUE]
      [] value \in {"no", "No"} -> [err |-> Nil, val |-> FALSE]
      [] OTHER -> [err |-> [kind |-> "yesno", attr |-> name, value |-> value],
                   val |-> b0]

(***************************************************************************)
(* The attribute types of the horses package.  xmlYesNo and xmlDate are    *)
(* used by the card decoders but declared in a file that is not at hand;   *)
(* they follow the documented boolean token decoder and temporal literal   *)
(* parser.                                                                 *)
(***************************************************************************)
\* horses xmlYesNo.UnmarshalXMLAttr: [err, val]
horses_xmlYesNo_UnmarshalXMLAttr(name, value, b0) ==
    CASE value \in {"yes", "Yes"} -> [err |-> Nil, val |-> TRUE]
      [] value \in {"no", "No"} -> [err |-> Nil, val |-> FALSE]
      [] OTHER -> [err |-> [kind |-> "yesno", attr |-> name, value |-> value],
                   val |-> b0]

\* horses xmlDate.UnmarshalXMLAttr: [err, val]; a literal of a length without
\* a shape is a format error
horses_xmlDate_UnmarshalXMLAttr(name, value, t0) ==
    LET result(p) ==
            IF ~p.ok
            THEN [err |-> [kind |-> "time", attr |-> name, value |-> value],
                  val |-> t0]
            ELSE [err |-> Nil, val |-> p.tm]
    IN  result(IF Len(value) \in {8, 9, 10, 11, 17, 18, 19, 20}
               THEN timeSwitch(value)
               ELSE [ok |-> FALSE, tm |-> ZeroTime])

(***************************************************************************)
(* Allowed values of the closed codes (greyhounds)                         *)
(***************************************************************************)
MeetingStates == {"Dormant", "Active", "Delayed", "Finished", "Abandoned"}

RaceStates ==
    {"Dormant", "Delayed", "Parading", "Approaching", "Going in traps",
     "Hare Running", "Off", "Blanket Finish", "Result", "Final Result",
     "Race Void", "No Race", "Rerun", "Stewards Inquiry", "Stopped for Safety",
     "Abandoned", "Meeting Abandoned", "Finished", "Photo Second", "Photo Third",
     "Trap Failure", "Hare Failure"}

TrapSeedings == {"Wide", "Mid", "Rails"}

DogSexes == {"d", "b"}

MessageTypes == {"Card", "Race"}

RaceTypes == {"Flat", "Hurdles"}

\* the constants listed for each closed code of the horse racing card
HorseCodes ==
    [CardMeetingStatus |-> {"Dormant", "Inspection", "Abandoned"},
     RaceType |-> {"Flat", "Hurdle", "Chase", "N_H_Flat"},
     TrackType |-> {"Turf", "Fibresand", "Polytrack", "Equitrack", "Dirt", "Sand",
                    "AllWeather"},
     CardHorseStatus |-> {"Runner", "Doubtful"},
     Sex |-> {"f", "c", "m", "h", "g", "r"},
     HorseRelation |-> {"Sire", "Dam", "DamSire"}]

MeetingStateIsValid(v) == v \in MeetingStates

MessageTypeIsValid(v) == v \in MessageTypes

\* a check that takes every value
isValid_Always(v) == TRUE

RaceStateIsValid(v) == v \in RaceStates

RaceTypeIsValid(v) == v \in RaceTypes

(***************************************************************************)
(* encoding/xml: decoding an element into the struct a decoder declares.   *)
(* A struct is known by the name of its type; AttrKinds gives the kind of  *)
(* each attribute field, AttrInit the values the fields hold before the    *)
(* decode, KidTypes the type decoded from each child tag.  Attributes are  *)
(* assigned in document order, then children are decoded in document       *)
(* order, and the first error ends the decode.  Attributes and children    *)
(* without a field are skipped.  A pointer is <<>> (nil) or <<v>>.         *)
(***************************************************************************)
El(attrs, kids) == [attrs |-> attrs, kids |-> kids, text |-> ""]

\* an element with character data and no children
ElText(attrs, text) == [attrs |-> attrs, kids |-> <<>>, text |-> text]

At(name, value) == [name |-> name, value |-> value]

Kid(tag, el) == [tag |-> tag, el |-> el]

ZeroNumber == [whole |-> "0", frac |-> ""]

\* zero values with a Yes/No field that starts as true
zeroOf_YesDefault(kind) ==
    CASE kind = "int" -> 0
      [] kind = "string" -> ""
      [] kind \in {"yesno", "horses.yesno"} -> TRUE
      [] kind \in {"time", "horses.date"} -> ZeroTime
      [] kind = "float" -> "0"
      [] kind = "decimal" -> ZeroNumber

zeroOf(kind) ==
    CASE kind = "int" -> 0
      [] kind = "string" -> ""
      [] kind \in {"yesno", "horses.yesno"} -> FALSE
      [] kind \in {"time", "horses.date"} -> ZeroTime
      [] kind = "float" -> "0"
      [] kind = "decimal" -> ZeroNumber

\* a non-empty string without its sign
Unsigned(s) == IF CharAt(s, 1) \in {"+", "-"} THEN Drop(s, 1) ELSE s

\* the syntax of strconv.ParseInt in base 10: an optional sign and one or
\* more digits
IsSignedInt(s) == s # "" /\ Unsigned(s) # "" /\ AllDigits(Unsigned(s))

SignedAtoi(s) == IF CharAt(s, 1) = "-" THEN 0 - Atoi(Unsigned(s)) ELSE Atoi(Unsigned(s))

\* assigning the attribute a to a field of the given kind that holds old
unmarshalAttr(kind, a, old) ==
    CASE kind = "string" -> [err |-> Nil, val |-> a.value]
      [] kind = "int" ->
           IF a.value = "" THEN [err |-> Nil, val |-> 0]
           ELSE IF IsSignedInt(a.value) THEN [err |-> Nil, val |-> SignedAtoi(a.value)]
           ELSE [err |-> [kind |-> "NumError", func |-> "ParseInt", num |-> a.value],
                 val |-> old]
      [] kind = "float" ->
           IF IsDecimal(a.value) THEN [err |-> Nil, val |-> a.value]
           ELSE [err |-> [kind |-> "NumError", func |-> "ParseFloat", num |-> a.value],
                 val |-> old]
      [] kind = "decimal" ->
           LET result(d) == [err |-> d.err, val |-> IF d.err = Nil THEN d.n ELSE old]
           IN  result(decimalFromString(a.value))
      [] kind = "yesno" -> xmlYesNoUnmarshalXMLAttr(a.name, a.value, old)
      [] kind = "time" -> xmlTimeElementUnmarshalXMLAttr(a.name, a.value, old)
      [] kind = "horses.yesno" -> horses_xmlYesNo_UnmarshalXMLAttr(a.name, a.value, old)
      [] kind = "horses.date" -> horses_xmlDate_UnmarshalXMLAttr(a.name, a.value, old)

AttrKinds(type) ==
    CASE type = "DogRacing" -> [type |-> "string", state |-> "string"]
      [] type = "xmlMeeting" ->
           [meetingId |-> "int", track |-> "string", country |-> "string",
            date |-> "time", state |-> "string"]
      [] type = "xmlRace" ->
           [revision |-> "int", raceNumber |-> "int", time |-> "time",
            type |-> "string", handicap |-> "yesno", class |-> "string",
            distance |-> "int", title |-> "string", prizes |-> "string",
            offTime |-> "time", going |-> "string", winTime |-> "string",
            state |-> "string", Bags |-> "yesno", tricast |-> "yesno"]
      [] type = "xmlTrap" ->
           [trap |-> "int", vacant |-> "yesno", wide |-> "yesno",
            seeding |-> "string", handicap |-> "string", reserve |-> "yesno",
            photo |-> "int"]
      [] type = "xmlDog" -> [id |-> "int", name |-> "string", origin |-> "string"]
      [] type = "xmlDog.ForecastPrice" -> [source |-> "string"]
      [] type = "xmlComment" -> [source |-> "string", type |-> "string"]
      [] type = "xmlNonRunner" -> [trap |-> "int", reasonForWithdrawal |-> "string"]
      [] type = "xmlBestTime" ->
           [adjustedTime |-> "string", date |-> "time", raceNumber |-> "int",
            meetingId |-> "int", class |-> "string"]
      [] type = "xmlBreeding" ->
           [sire |-> "string", dam |-> "string", born |-> "time",
            colour |-> "string", sex |-> "string", season |-> "string"]
      [] type = "xmlTrainer" -> [id |-> "int", name |-> "string", track |-> "string"]
      [] type = "xmlOwner" -> [id |-> "int", name |-> "string"]
      [] type \in {"xmlRating", "xmlExpectedTime"} ->
           [source |-> "string", type |-> "string", value |-> "string"]
      [] type = "xmlFormRace" ->
           [meetingId |-> "int", track |-> "string", date |-> "time",
            raceNumber |-> "int", going |-> "string", time |-> "time",
            type |-> "string", class |-> "string", distance |-> "int",
            winningTime |-> "string"]
      [] type = "xmlFormTrap" ->
           [trap |-> "int", wide |-> "yesno", seeding |-> "string",
            handicap |-> "string"]
      [] type = "xmlResult" ->
           [position |-> "string", btnDistance |-> "string",
            sectionalTime |-> "string", bendPosition |-> "string",
            runComment |-> "string", runTime |-> "string", weight |-> "float",
            adjustedTime |-> "string"]
      [] type = "xmlResult.StartingPrice" -> [marketPos |-> "int", marketCnt |-> "int"]
      [] type = "xmlShow" ->
           [timeStamp |-> "time", marketNumber |-> "int", noOffers |-> "yesno"]
      [] type = "xmlPrice" ->
           [decimal |-> "decimal", numerator |-> "int", denominator |-> "int"]
      [] type = "xmlForecast" ->
           [trap1 |-> "int", trap2 |-> "int", dividend |-> "decimal"]
      [] type = "xmlTricast" ->
           [trap1 |-> "int", trap2 |-> "int", trap3 |-> "int", dividend |-> "decimal"]
      [] type = "CardMeeting" ->
           [id |-> "int", country |-> "string", course |-> "string",
            date |-> "horses.date", status |-> "string", decStage |-> "string"]
      [] type = "CardRace" ->
           [id |-> "int", date |-> "string", time |-> "string",
            raceType |-> "string", trackType |-> "string",
            handicap |-> "horses.yesno", trifecta |-> "horses.yesno",
            showcase |-> "horses.yesno", class |-> "int", maxRunners |-> "int",
            numFences |-> "int"]
      [] type = "CardRace.PrizeMoney" -> [currency |-> "string"]
      [] type = "CardRace.PrizeMoney.Prize" -> [position |-> "int", amount |-> "int"]
      [] type = "CardRace.LastWinner" ->
           [year |-> "int", noRace |-> "string", ran |-> "int"]
      [] type = "CardHorse" ->
           [id |-> "int", name |-> "string", bred |-> "string", status |-> "string"]
      [] type = "CardHorse.Cloth" -> [number |-> "int"]
      [] type = "CardHorse.Age" -> [years |-> "int"]
      [] type \in {"CardHorse.Owner", "CardHorse.Breeder"} -> [name |-> "string"]
      [] type = "CardHorse.JockeyColours" ->
           [filename |-> "string", description |-> "string"]
      [] type \in {"CardRace.Eligibility", "CardHorse.Colour", "CardHorse.Sex"} ->
           [type |-> "string"]
      [] type = "CardTrainer" ->
           [id |-> "int", name |-> "string", nationality |-> "string",
            location |-> "string"]
      [] type = "CardJockey" -> [id |-> "int", name |-> "string"]
      [] type = "Breeding" ->
           [type |-> "string", name |-> "string", bred |-> "string",
            yearBorn |-> "int"]
      [] OTHER -> <<>>

\* a struct whose fields hold their zero values
ZeroFields(kinds) == [n \in DOMAIN kinds |-> zeroOf(kinds[n])]

AttrInit_NoDefault(type) == ZeroFields(AttrKinds(type))

AttrInit(type) ==
    LET init(zero) ==
            CASE type = "xmlMeeting" -> [zero EXCEPT !["state"] = "Dormant"]
              [] type = "xmlRace" -> [zero EXCEPT !["state"] = "Dormant"]
              [] type = "CardHorse" -> [zero EXCEPT !["status"] = "Runner"]
              [] OTHER -> zero
    IN  init(ZeroFields(AttrKinds(type)))

KidTypes(type) ==
    CASE type = "DogRacing" -> [Meeting |-> "xmlMeeting"]
      [] type = "xmlMeeting" -> [Race |-> "xmlRace", ReserveDogs |-> "xmlMeeting.ReserveDogs"]
      [] type = "xmlMeeting.ReserveDogs" -> [Dog |-> "xmlDog"]
      [] type = "xmlRace" ->
           [Comments |-> "xmlRace.Comments", Trap |-> "xmlTrap",
            NonRunner |-> "xmlNonRunner", Dividends |-> "xmlDividends"]
      [] type = "xmlRace.Comments" -> [Comment |-> "xmlComment"]
      [] type = "xmlTrap" -> [Dog |-> "xmlDog", Show |-> "xmlShow", Result |-> "xmlResult"]
      [] type = "xmlDog" ->
           [BestTime |-> "xmlBestTime", ExpectedTimes |-> "xmlDog.ExpectedTimes",
            Breeding |-> "xmlBreeding", Trainer |-> "xmlTrainer", Owner |-> "xmlOwner",
            Rating |-> "xmlRating", Comment |-> "xmlComment",
            ForecastPrice |-> "xmlDog.ForecastPrice", Form |-> "xmlDog.Form"]
      [] type = "xmlDog.ExpectedTimes" -> [ExpectedTime |-> "xmlExpectedTime"]
      [] type = "xmlDog.ForecastPrice" -> [Price |-> "xmlPrice"]
      [] type = "xmlDog.Form" -> [FormRace |-> "xmlFormRace"]
      [] type = "xmlNonRunner" -> [Dog |-> "xmlDog"]
      [] type = "xmlFormRace" -> [FormTrap |-> "xmlFormTrap"]
      [] type = "xmlFormTrap" -> [Dog |-> "xmlDog", Result |-> "xmlResult"]
      [] type = "xmlResult" -> [StartingPrice |-> "xmlResult.StartingPrice"]
      [] type = "xmlResult.StartingPrice" -> [Price |-> "xmlPrice"]
      [] type = "xmlShow" -> [Price |-> "xmlPrice"]
      [] type = "xmlDividends" -> [Forecast |-> "xmlForecast", Tricast |-> "xmlTricast"]
      [] type = "RacingCard" -> [Meeting |-> "CardMeeting"]
      [] type = "CardMeeting" ->
           [WeatherForecast |-> "chardata", Abandoned |-> "chardata",
            DrawAdvantage |-> "chardata", AdvancedGoing |-> "chardata",
            Race |-> "CardRace"]
      [] type = "CardRace" ->
           [Title |-> "chardata", PrizeMoney |-> "CardRace.PrizeMoney",
            Eligibility |-> "CardRace.Eligibility",
            LastWinner |-> "CardRace.LastWinner", Rating |-> "Rating",
            Horse |-> "CardHorse"]
      [] type = "CardRace.PrizeMoney" -> [Prize |-> "CardRace.PrizeMoney.Prize"]
      [] type = "CardHorse" ->
           [Cloth |-> "CardHorse.Cloth", Drawn |-> "CardHorse.Drawn",
            Age |-> "CardHorse.Age", Trainer |-> "CardTrainer",
            Owner |-> "CardHorse.Owner", Breeder |-> "CardHorse.Breeder",
            Jockey |-> "CardJockey", JockeyColours |-> "CardHorse.JockeyColours",
            Colour |-> "CardHorse.Colour", Sex |-> "CardHorse.Sex",
            Breeding |-> "Breeding"]
      [] type = "CardHorse.Drawn" -> [stall |-> "int"]
      [] OTHER -> <<>>

RECURSIVE decodeAttrs(_, _, _)
decodeAttrs(kinds, data, attrs) ==
    IF attrs = <<>> THEN [err |-> Nil, val |-> data]
    ELSE LET a == Head(attrs)
         IN  IF a.name \notin DOMAIN kinds
             THEN decodeAttrs(kinds, data, Tail(attrs))
             ELSE LET assign(r) ==
                          IF r.err # Nil THEN [err |-> r.err, val |-> data]
                          ELSE decodeAttrs(kinds, [data EXCEPT ![a.name] = r.val],
                                           Tail(attrs))
                  IN  assign(unmarshalAttr(kinds[a.name], a, data[a.name]))

\* a slice field as a pointer field: the last element decoded, or nil
Ptr(seq) == IF seq = <<>> THEN <<>> ELSE <<seq[Len(seq)]>>

NoKids(types) == [t \in DOMAIN types |-> <<>>]

\* a nested struct field without a decoder of its own: the last element of
\* the tag, or the zero struct
Nested(type, seq) ==
    IF seq = <<>>
    THEN [a |-> AttrInit(type), k |-> NoKids(KidTypes(type)), text |-> ""]
    ELSE seq[Len(seq)]

(***************************************************************************)
(* The decoders of greyhounds/racing.go                                    *)
(***************************************************************************)
xmlCommentUnmarshalXML(d) ==
    IF d.err # Nil THEN d
    ELSE [err |-> Nil,
          val |-> [Source |-> d.val.a.source, Type |-> d.val.a.type,
                   Text |-> d.val.text]]

xmlTrainerUnmarshalXML(d) ==
    IF d.err # Nil THEN d
    ELSE [err |-> Nil,
          val |-> [ID |-> d.val.a.id, Name |-> d.val.a.name, Track |-> d.val.a.track]]

xmlOwnerUnmarshalXML(d) ==
    IF d.err # Nil THEN d
    ELSE [err |-> Nil, val |-> [ID |-> d.val.a.id, Name |-> d.val.a.name]]

xmlRatingUnmarshalXML(d) ==
    IF d.err # Nil THEN d
    ELSE [err |-> Nil,
          val |-> [Source |-> d.val.a.source, Type |-> d.val.a.type,
                   Value |-> d.val.a.value]]

xmlExpectedTimeUnmarshalXML(d) ==
    IF d.err # Nil THEN d
    ELSE [err |-> Nil,
          val |-> [Source |-> d.val.a.source, Type |-> d.val.a.type,
                   Value |-> d.val.a.value]]

xmlBestTimeUnmarshalXML(d) ==
    LET assign(adjustedTime) ==
        IF adjustedTime.err # Nil THEN [err |-> adjustedTime.err, val |-> <<>>]
        ELSE [err |-> Nil,
              val |-> [AdjustedTime |-> adjustedTime.val, Date |-> d.val.a.date,
                       RaceNumber |-> d.val.a.raceNumber, MeetingID |-> d.val.a.meetingId,
                       Class |-> d.val.a.class]]
    IN  IF d.err # Nil THEN d
        ELSE assign(parseDuration(d.val.a.adjustedTime))

xmlBreedingUnmarshalXML(d) ==
    IF d.err # Nil THEN d
    ELSE [err |-> Nil,
          val |-> [Sire |-> d.val.a.sire, Dam |-> d.val.a.dam, Born |-> d.val.a.born,
                   Colour |-> d.val.a.colour, Sex |-> d.val.a.sex,
                   Season |-> d.val.a.season]]

\* a big.Rat in lowest terms: [num, den]
RECURSIVE gcd(_, _)
gcd(a, b) == IF b = 0 THEN a ELSE gcd(b, a % b)

\* the ratio as given, not reduced
NewRat_Unreduced(a, b) == [num |-> a, den |-> b]

abs(a) == IF a < 0 THEN 0 - a ELSE a

\* big.NewRat(a, b) for b # 0: the sign in the numerator
NewRat(a, b) ==
    [num |-> (IF b < 0 THEN 0 - a ELSE a) \div gcd(abs(a), abs(b)),
     den |-> abs(b) \div gcd(abs(a), abs(b))]

\* the zero big.Rat
ZeroRat == [num |-> 0, den |-> 1]

xmlPriceUnmarshalXML(d) ==
    LET fraction == IF d.val.a.denominator # 0
                    THEN NewRat(d.val.a.numerator, d.val.a.denominator)
                    ELSE ZeroRat
    IN  IF d.err # Nil THEN d
        ELSE [err |-> Nil,
              val |-> [Decimal |-> d.val.a.decimal, Fractional |-> fraction]]

\* the two traps of a forecast exchanged
xmlForecastUnmarshalXML_Swapped(d) ==
    IF d.err # Nil THEN d
    ELSE [err |-> Nil,
          val |-> [Trap1 |-> d.val.a.trap2, Trap2 |-> d.val.a.trap1,
                   Dividend |-> d.val.a.dividend]]

xmlForecastUnmarshalXML(d) ==
    IF d.err # Nil THEN d
    ELSE [err |-> Nil,
          val |-> [Trap1 |-> d.val.a.trap1, Trap2 |-> d.val.a.trap2,
                   Dividend |-> d.val.a.dividend]]

xmlTricastUnmarshalXML(d) ==
    IF d.err # Nil THEN d
    ELSE [err |-> Nil,
          val |-> [Trap1 |-> d.val.a.trap1, Trap2 |-> d.val.a.trap2,
                   Trap3 |-> d.val.a.trap3, Dividend |-> d.val.a.dividend]]

xmlDividendsUnmarshalXML(d) ==
    IF d.err # Nil THEN d
    ELSE [err |-> Nil,
          val |-> [Forecast |-> d.val.k.Forecast, Tricast |-> d.val.k.Tricast]]

xmlShowUnmarshalXML(d) ==
    IF d.err # Nil THEN d
    ELSE [err |-> Nil,
          val |-> [TimeStamp |-> d.val.a.timeStamp,
                   MarketNumber |-> d.val.a.marketNumber,
                   NoOffers |-> d.val.a.noOffers, Price |-> Ptr(d.val.k.Price)]]

xmlResultUnmarshalXML(d) ==
    LET startingPrice == Nested("xmlResult.StartingPrice", d.val.k.StartingPrice)
        assign(sectionalTime, runTime, adjustedTime) ==
        IF sectionalTime.err # Nil THEN [err |-> sectionalTime.err, val |-> <<>>]
        ELSE IF runTime.err # Nil THEN [err |-> runTime.err, val |-> <<>>]
        ELSE IF adjustedTime.err # Nil THEN [err |-> adjustedTime.err, val |-> <<>>]
        ELSE [err |-> Nil,
              val |-> [Position |-> d.val.a.position, BtnDistance |-> d.val.a.btnDistance,
                       SectionalTime |-> sectionalTime.val,
                       BendPosition |-> d.val.a.bendPosition,
                       RunComment |-> d.val.a.runComment, RunTime |-> runTime.val,
                       Weight |-> d.val.a.weight, AdjustedTime |-> adjustedTime.val,
                       StartingPrice |-> Ptr(startingPrice.k.Price)]]
    IN  IF d.err # Nil THEN d
        ELSE assign(parseDuration(d.val.a.sectionalTime),
                    parseDuration(d.val.a.runTime),
                    parseDuration(d.val.a.adjustedTime))

xmlFormTrapUnmarshalXML(d) ==
    IF d.err # Nil THEN d
    ELSE [err |-> Nil,
          val |-> [Trap |-> d.val.a.trap, Wide |-> d.val.a.wide,
                   Seeding |-> d.val.a.seeding, Handicap |-> d.val.a.handicap,
                   Dog |-> Ptr(d.val.k.Dog), Result |-> Ptr(d.val.k.Result)]]

xmlFormRaceUnmarshalXML(d) ==
    LET startTime == IF d.val.a.time.year = 0
                     THEN addDate(d.val.a.time, d.val.a.date)
                     ELSE d.val.a.time
        assign(winningTime) ==
        IF winningTime.err # Nil THEN [err |-> winningTime.err, val |-> <<>>]
        ELSE [err |-> Nil,
              val |-> [MeetingID |-> d.val.a.meetingId, Track |-> d.val.a.track,
                       RaceNumber |-> d.val.a.raceNumber, Going |-> d.val.a.going,
                       Date |-> startTime, Type |-> d.val.a.type,
                       Class |-> d.val.a.class, Distance |-> d.val.a.distance,
                       WinningTime |-> winningTime.val,
                       FormTraps |-> d.val.k.FormTrap]]
    IN  IF d.err # Nil THEN d
        ELSE assign(parseDuration(d.val.a.winningTime))

xmlDogUnmarshalXML(d) ==
    LET forecastPrice == Nested("xmlDog.ForecastPrice", d.val.k.ForecastPrice)
        expectedTimes == Nested("xmlDog.ExpectedTimes", d.val.k.ExpectedTimes)
        form == Nested("xmlDog.Form", d.val.k.Form)
        zeroTrainer == [ID |-> 0, Name |-> "", Track |-> ""]
        zeroOwner == [ID |-> 0, Name |-> ""]
    IN  IF d.err # Nil THEN d
        ELSE [err |-> Nil,
              val |-> [ID |-> d.val.a.id, Name |-> d.val.a.name, Origin |-> d.val.a.origin,
                       ForecastPriceSource |-> forecastPrice.a.source,
                       ForecastPrice |-> Ptr(forecastPrice.k.Price),
                       BestTime |-> Ptr(d.val.k.BestTime),
                       ExpectedTimes |-> expectedTimes.k.ExpectedTime,
                       Breeding |-> Ptr(d.val.k.Breeding),
                       Trainer |-> IF d.val.k.Trainer = <<>> THEN zeroTrainer
                                   ELSE d.val.k.Trainer[Len(d.val.k.Trainer)],
                       Owner |-> IF d.val.k.Owner = <<>> THEN zeroOwner
                                 ELSE d.val.k.Owner[Len(d.val.k.Owner)],
                       Ratings |-> d.val.k.Rating, Comments |-> d.val.k.Comment,
                       FormRaces |-> form.k.FormRace]]

xmlNonRunnerUnmarshalXML(d) ==
    IF d.err # Nil THEN d
    ELSE [err |-> Nil,
          val |-> [Trap |-> d.val.a.trap, Reason |-> d.val.a.reasonForWithdrawal,
                   Dog |-> Ptr(d.val.k.Dog)]]

xmlTrapUnmarshalXML(d) ==
    IF d.err # Nil THEN d
    ELSE [err |-> Nil,
          val |-> [TrapNo |-> d.val.a.trap, Vacant |-> d.val.a.vacant,
                   Wide |-> d.val.a.wide, Seeding |-> d.val.a.seeding,
                   Handicap |-> d.val.a.handicap, Reserve |-> d.val.a.reserve,
                   Photo |-> d.val.a.photo, Dog |-> Ptr(d.val.k.Dog),
                   Shows |-> d.val.k.Show, Result |-> Ptr(d.val.k.Result)]]

EnumError(field, value) == [kind |-> "enum", field |-> field, value |-> value]

xmlRaceUnmarshalXML(d) ==
    LET comments == Nested("xmlRace.Comments", d.val.k.Comments)
        assign(winTime) ==
        IF winTime.err # Nil THEN [err |-> winTime.err, val |-> <<>>]
        ELSE [err |-> Nil,
              val |-> [Revision |-> d.val.a.revision, RaceNumber |-> d.val.a.raceNumber,
                       Time |-> d.val.a.time, Type |-> d.val.a.type,
                       Handicap |-> d.val.a.handicap, Class |-> d.val.a.class,
                       Distance |-> d.val.a.distance, Title |-> d.val.a.title,
                       Prizes |-> d.val.a.prizes, OffTime |-> d.val.a.offTime,
                       Going |-> d.val.a.going, WinTime |-> winTime.val,
                       State |-> d.val.a.state, Bags |-> d.val.a.Bags,
                       Tricast |-> d.val.a.tricast,
                       Comments |-> comments.k.Comment, Traps |-> d.val.k.Trap,
                       NonRunners |-> d.val.k.NonRunner,
                       Dividends |-> Ptr(d.val.k.Dividends)]]
    IN  IF d.err # Nil THEN d
        ELSE IF ~RaceTypeIsValid(d.val.a.type)
        THEN [err |-> EnumError("Race type", d.val.a.type), val |-> <<>>]
        ELSE IF ~RaceStateIsValid(d.val.a.state)
        THEN [err |-> EnumError("Race state", d.val.a.state), val |-> <<>>]
        ELSE assign(parseDuration(d.val.a.winTime))

\* the loop without the tests of the year
mergeRace_Always(r, date) ==
    LET show(sh) == [sh EXCEPT !.TimeStamp = addDate(sh.TimeStamp, date)]
        trap(t) == [t EXCEPT !.Shows = [j \in 1..Len(t.Shows) |-> show(t.Shows[j])]]
    IN  [r EXCEPT !.Time = addDate(r.Time, date),
                  !.OffTime = addDate(r.OffTime, date),
                  !.Traps = [i \in 1..Len(r.Traps) |-> trap(r.Traps[i])]]

\* the loop taking the zero timestamp for a time of day as well
mergeRace_ZeroToo(r, date) ==
    LET fix(t) == IF t.year <= 1 THEN addDate(t, date) ELSE t
        show(sh) == [sh EXCEPT !.TimeStamp = fix(sh.TimeStamp)]
        trap(t) == [t EXCEPT !.Shows = [j \in 1..Len(t.Shows) |-> show(t.Shows[j])]]
    IN  [r EXCEPT !.Time = fix(r.Time),
                  !.OffTime = fix(r.OffTime),
                  !.Traps = [i \in 1..Len(r.Traps) |-> trap(r.Traps[i])]]

\* the loop without the merge of the race time
mergeRace_NoTime(r, date) ==
    [r EXCEPT !.OffTime = IF r.OffTime.year = 0 THEN addDate(r.OffTime, date)
                          ELSE r.OffTime]

\* the loop of xmlMeeting.UnmarshalXML over one race: the values of year 0
\* get the meeting's date
mergeRace(r, date) ==
    LET show(sh) == IF sh.TimeStamp.year = 0
                    THEN [sh EXCEPT !.TimeStamp = addDate(sh.TimeStamp, date)]
                    ELSE sh
        trap(t) == [t EXCEPT !.Shows = [j \in 1..Len(t.Shows) |-> show(t.Shows[j])]]
    IN  [r EXCEPT
           !.Time = IF r.Time.year = 0 THEN addDate(r.Time, date) ELSE r.Time,
           !.OffTime = IF r.OffTime.year = 0 THEN addDate(r.OffTime, date) ELSE r.OffTime,
           !.Traps = [i \in 1..Len(r.Traps) |-> trap(r.Traps[i])]]

xmlMeetingUnmarshalXML(d) ==
    LET reserveDogs == Nested("xmlMeeting.ReserveDogs", d.val.k.ReserveDogs)
    IN  IF d.err # Nil THEN d
        ELSE IF ~MeetingStateIsValid(d.val.a.state)
        THEN [err |-> EnumError("Meeting state", d.val.a.state), val |-> <<>>]
        ELSE [err |-> Nil,
              val |-> [MeetingID |-> d.val.a.meetingId, Track |-> d.val.a.track,
                       Country |-> d.val.a.country, Date |-> d.val.a.date,
                       State |-> d.val.a.state,
                       Races |-> [i \in 1..Len(d.val.k.Race) |->
                                     mergeRace(d.val.k.Race[i], d.val.a.date)],
                       ReserveDogs |-> reserveDogs.k.Dog]]

\* a decoder that keeps the first Meeting only
DogRacingUnmarshalXML_FirstMeeting(d) ==
    IF d.err # Nil THEN d
    ELSE IF ~MessageTypeIsValid(d.val.a.type)
    THEN [err |-> EnumError("Message type", d.val.a.type), val |-> <<>>]
    ELSE [err |-> Nil,
          val |-> [Type |-> d.val.a.type, State |-> d.val.a.state,
                   Meetings |-> IF d.val.k.Meeting = <<>> THEN <<>>
                               ELSE <<d.val.k.Meeting[1]>>]]

DogRacingUnmarshalXML(d) ==
    IF d.err # Nil THEN d
    ELSE IF ~MessageTypeIsValid(d.val.a.type)
    THEN [err |-> EnumError("Message type", d.val.a.type), val |-> <<>>]
    ELSE [err |-> Nil,
          val |-> [Type |-> d.val.a.type, State |-> d.val.a.state,
                   Meetings |-> d.val.k.Meeting]]

(***************************************************************************)
(* The decoders of the horse racing card.  The fields whose element types  *)
(* (xmlMoneyValue, xmlUnitsValue, xmlUnitsValueText, the Inspection time)  *)
(* are declared in a file that is not at hand are left out: no input has   *)
(* those children.                                                         *)
(***************************************************************************)
RacingCardUnmarshalXML(d) ==
    IF d.err # Nil THEN d
    ELSE [err |-> Nil, val |-> d.val.k.Meeting]

\* the races are decoded with the element and are not part of the meeting
\* that is assigned
CardMeetingUnmarshalXML(d) ==
    IF d.err # Nil THEN d
    ELSE [err |-> Nil,
          val |-> [ID |-> d.val.a.id, Country |-> d.val.a.country,
                   Course |-> d.val.a.course, Date |-> d.val.a.date,
                   Status |-> d.val.a.status,
                   WeatherForecast |-> Nested("chardata", d.val.k.WeatherForecast).text,
                   AbandonedReason |-> Nested("chardata", d.val.k.Abandoned).text,
                   DrawAdvantage |-> Nested("chardata", d.val.k.DrawAdvantage).text,
                   AdvancedGoing |-> Nested("chardata", d.val.k.AdvancedGoing).text,
                   Races |-> <<>>]]

\* decimal.FromInt(n), n >= 0
FromInt(n) ==
    LET RECURSIVE digits(_)
        digits(k) == IF k < 10 THEN DigitStr[k + 1]
                     ELSE digits(k \div 10) \o DigitStr[(k % 10) + 1]
    IN  [whole |-> digits(n), frac |-> ""]

RECURSIVE prizesLoop_KeepFirst(_, _)
\* a loop that keeps the amount a position already has
prizesLoop_KeepFirst(prizes, list) ==
    IF list = <<>> THEN prizes
    ELSE LET prize == Head(list).a
         IN  prizesLoop_KeepFirst(
                 [k \in DOMAIN prizes \cup {prize.position} |->
                     IF k \in DOMAIN prizes THEN prizes[k] ELSE FromInt(prize.amount)],
                 Tail(list))

\* the loop over data.PrizeMoney.Prize: a map from position to amount
RECURSIVE prizesLoop(_, _)
prizesLoop(prizes, list) ==
    IF list = <<>> THEN prizes
    ELSE LET prize == Head(list).a
         IN  prizesLoop([k \in DOMAIN prizes \cup {prize.position} |->
                            IF k = prize.position THEN FromInt(prize.amount)
                            ELSE prizes[k]],
                        Tail(list))

\* a decoder that parses the date attribute alone
CardRaceUnmarshalXML_DateOnly(d) ==
    LET prizeMoney == Nested("CardRace.PrizeMoney", d.val.k.PrizeMoney)
        assign(startTime) ==
        IF ~startTime.ok
        THEN [err |-> [kind |-> "CardRace.date and CardRace.time", value |-> d.val.a.date],
              val |-> <<>>]
        ELSE [err |-> Nil,
              val |-> [ID |-> d.val.a.id, StartTime |-> startTime.tm,
                       RaceType |-> d.val.a.raceType, TrackType |-> d.val.a.trackType,
                       Handicap |-> d.val.a.handicap, Trifecta |-> d.val.a.trifecta,
                       Showcase |-> d.val.a.showcase, Class |-> d.val.a.class,
                       MaxRunners |-> d.val.a.maxRunners,
                       NumFences |-> d.val.a.numFences,
                       Title |-> Nested("chardata", d.val.k.Title).text,
                       PrizeCurrency |-> prizeMoney.a.currency,
                       Prizes |-> prizesLoop(<<>>, prizeMoney.k.Prize),
                       Eligibility |->
                           Nested("CardRace.Eligibility", d.val.k.Eligibility).a.type,
                       Ratings |-> d.val.k.Rating, Horses |-> d.val.k.Horse]]
    IN  IF d.err # Nil THEN d
        ELSE assign(timeParse(<<"2006", "01", "02">>, d.val.a.date))

CardRaceUnmarshalXML(d) ==
    LET prizeMoney == Nested("CardRace.PrizeMoney", d.val.k.PrizeMoney)
        literal == d.val.a.date \o "T" \o d.val.a.time
        assign(startTime) ==
        IF ~startTime.ok
        THEN [err |-> [kind |-> "CardRace.date and CardRace.time", value |-> literal],
              val |-> <<>>]
        ELSE [err |-> Nil,
              val |-> [ID |-> d.val.a.id, StartTime |-> startTime.tm,
                       RaceType |-> d.val.a.raceType, TrackType |-> d.val.a.trackType,
                       Handicap |-> d.val.a.handicap, Trifecta |-> d.val.a.trifecta,
                       Showcase |-> d.val.a.showcase, Class |-> d.val.a.class,
                       MaxRunners |-> d.val.a.maxRunners,
                       NumFences |-> d.val.a.numFences,
                       Title |-> Nested("chardata", d.val.k.Title).text,
                       PrizeCurrency |-> prizeMoney.a.currency,
                       Prizes |-> prizesLoop(<<>>, prizeMoney.k.Prize),
                       Eligibility |->
                           Nested("CardRace.Eligibility", d.val.k.Eligibility).a.type,
                       Ratings |-> d.val.k.Rating, Horses |-> d.val.k.Horse]]
    IN  IF d.err # Nil THEN d
        ELSE assign(timeParse(<<"2006", "01", "02", "T", "15", "04", "-0700">>, literal))

CardTrainerUnmarshalXML(d) ==
    IF d.err # Nil THEN d
    ELSE [err |-> Nil,
          val |-> [ID |-> d.val.a.id, Name |-> d.val.a.name,
                   Nationality |-> d.val.a.nationality,
                   Location |-> d.val.a.location]]

CardJockeyUnmarshalXML(d) ==
    IF d.err # Nil THEN d
    ELSE [err |-> Nil, val |-> [ID |-> d.val.a.id, Name |-> d.val.a.name]]

\* Breeding.UnmarshalXML of the horses package
BreedingUnmarshalXML(d) ==
    IF d.err # Nil THEN d
    ELSE [err |-> Nil,
          val |-> [Relation |-> d.val.a.type, Name |-> d.val.a.name,
                   Bred |-> d.val.a.bred, YearBord |-> d.val.a.yearBorn]]

CardHorseUnmarshalXML(d) ==
    LET drawn == Nested("CardHorse.Drawn", d.val.k.Drawn)
        colours == Nested("CardHorse.JockeyColours", d.val.k.JockeyColours)
        last(seq, zero) == IF seq = <<>> THEN zero ELSE seq[Len(seq)]
    IN  IF d.err # Nil THEN d
        ELSE [err |-> Nil,
              val |-> [ID |-> d.val.a.id, Name |-> d.val.a.name, Bred |-> d.val.a.bred,
                       Status |-> d.val.a.status,
                       ClothNumber |-> Nested("CardHorse.Cloth", d.val.k.Cloth).a.number,
                       DrawnStall |-> last(drawn.k.stall, 0),
                       AgeInYears |-> Nested("CardHorse.Age", d.val.k.Age).a.years,
                       Trainer |-> last(d.val.k.Trainer,
                                        [ID |-> 0, Name |-> "", Nationality |-> "",
                                         Location |-> ""]),
                       OwnerName |-> Nested("CardHorse.Owner", d.val.k.Owner).a.name,
                       BreederName |-> Nested("CardHorse.Breeder", d.val.k.Breeder).a.name,
                       Jockey |-> last(d.val.k.Jockey, [ID |-> 0, Name |-> ""]),
                       JockeyColours |-> colours.a.description,
                       JockeyColoursFile |-> colours.a.filename,
                       Colours |-> [i \in 1..Len(d.val.k.Colour) |->
                                       d.val.k.Colour[i].a.type],
                       Sex |-> Nested("CardHorse.Sex", d.val.k.Sex).a.type,
                       Breeding |-> d.val.k.Breeding]]

\* Rating.UnmarshalXML assigns the zero Rating and returns nil without a call
\* of d.DecodeElement; encoding/xml then fails the decode, the element not
\* having been consumed
RatingUnmarshalXML(el) ==
    [err |-> [kind |-> "xml", type |-> "Rating",
              msg |-> "UnmarshalXML did not consume entire element"],
     val |-> [Type |-> "", Value |-> 0]]

\* the statements of the decoder of the given type that follow its call of
\* d.DecodeElement, which returned d
UnmarshalXML(type, d) ==
    CASE type = "DogRacing" -> DogRacingUnmarshalXML(d)
      [] type = "xmlMeeting" -> xmlMeetingUnmarshalXML(d)
      [] type = "xmlRace" -> xmlRaceUnmarshalXML(d)
      [] type = "xmlTrap" -> xmlTrapUnmarshalXML(d)
      [] type = "xmlDog" -> xmlDogUnmarshalXML(d)
      [] type = "xmlComment" -> xmlCommentUnmarshalXML(d)
      [] type = "xmlNonRunner" -> xmlNonRunnerUnmarshalXML(d)
      [] type = "xmlBestTime" -> xmlBestTimeUnmarshalXML(d)
      [] type = "xmlBreeding" -> xmlBreedingUnmarshalXML(d)
      [] type = "xmlTrainer" -> xmlTrainerUnmarshalXML(d)
      [] type = "xmlOwner" -> xmlOwnerUnmarshalXML(d)
      [] type = "xmlRating" -> xmlRatingUnmarshalXML(d)
      [] type = "xmlExpectedTime" -> xmlExpectedTimeUnmarshalXML(d)
      [] type = "xmlFormRace" -> xmlFormRaceUnmarshalXML(d)
      [] type = "xmlFormTrap" -> xmlFormTrapUnmarshalXML(d)
      [] type = "xmlResult" -> xmlResultUnmarshalXML(d)
      [] type = "xmlShow" -> xmlShowUnmarshalXML(d)
      [] type = "xmlPrice" -> xmlPriceUnmarshalXML(d)
      [] type = "xmlDividends" -> xmlDividendsUnmarshalXML(d)
      [] type = "xmlForecast" -> xmlForecastUnmarshalXML(d)
      [] type = "xmlTricast" -> xmlTricastUnmarshalXML(d)
      [] type = "RacingCard" -> RacingCardUnmarshalXML(d)
      [] type = "CardMeeting" -> CardMeetingUnmarshalXML(d)
      [] type = "CardRace" -> CardRaceUnmarshalXML(d)
      [] type = "CardHorse" -> CardHorseUnmarshalXML(d)
      [] type = "CardTrainer" -> CardTrainerUnmarshalXML(d)
      [] type = "CardJockey" -> CardJockeyUnmarshalXML(d)
      [] type = "Breeding" -> BreedingUnmarshalXML(d)
      [] type = "int" ->
           IF d.err # Nil THEN d ELSE unmarshalAttr("int", At("", d.val.text), 0)
      [] OTHER -> d

RECURSIVE unmarshal(_, _)
RECURSIVE decodeKids(_, _, _)
RECURSIVE decodeElement(_, _)

RECURSIVE decodeKids_Prepend(_, _, _)
\* the children put in front of those decoded before them
decodeKids_Prepend(types, acc, kids) ==
    IF kids = <<>> THEN [err |-> Nil, val |-> acc]
    ELSE LET k == Head(kids)
         IN  IF k.tag \notin DOMAIN types
             THEN decodeKids_Prepend(types, acc, Tail(kids))
             ELSE LET append(r) ==
                          IF r.err # Nil THEN [err |-> r.err, val |-> acc]
                          ELSE decodeKids_Prepend(types,
                                          [acc EXCEPT ![k.tag] = <<r.val>> \o @],
                                          Tail(kids))
                  IN  append(unmarshal(types[k.tag], k.el))

\* children in document order, each decoded by the decoder of its tag's type
\* and appended to the list of its tag
decodeKids(types, acc, kids) ==
    IF kids = <<>> THEN [err |-> Nil, val |-> acc]
    ELSE LET k == Head(kids)
         IN  IF k.tag \notin DOMAIN types
             THEN decodeKids(types, acc, Tail(kids))
             ELSE LET append(r) ==
                          IF r.err # Nil THEN [err |-> r.err, val |-> acc]
                          ELSE decodeKids(types,
                                          [acc EXCEPT ![k.tag] = Append(@, r.val)],
                                          Tail(kids))
                  IN  append(unmarshal(types[k.tag], k.el))

\* d.DecodeElement(&data, &start): [err, val], val.a the attribute fields,
\* val.k the decoded children of each tag, val.text the character data
decodeElement(type, el) ==
    LET result(a, k) ==
            IF a.err # Nil THEN [err |-> a.err, val |-> <<>>]
            ELSE IF k.err # Nil THEN [err |-> k.err, val |-> <<>>]
            ELSE [err |-> Nil, val |-> [a |-> a.val, k |-> k.val, text |-> el.text]]
    IN  result(decodeAttrs(AttrKinds(type), AttrInit(type), el.attrs),
               decodeKids(KidTypes(type), NoKids(KidTypes(type)), el.kids))

\* encoding/xml decoding el into a value of the given type: the type's
\* UnmarshalXML, which starts with d.DecodeElement
unmarshal(type, el) ==
    IF type = "Rating" THEN RatingUnmarshalXML(el)
    ELSE UnmarshalXML(type, decodeElement(type, el))

\* an entrypoint that returns the object it was filling along with the error
ParseFile_PartialObject(doc) ==
    LET result(r) == [err |-> r.err, val |-> <<r.val>>]
    IN  result(unmarshal("DogRacing", doc))

\* greyhounds.ParseFile: [err, val], val a pointer
ParseFile(doc) ==
    LET result(r) ==
            IF r.err # Nil THEN [err |-> r.err, val |-> <<>>]
            ELSE [err |-> Nil, val |-> <<r.val>>]
    IN  result(unmarshal("DogRacing", doc))

\* horses.ParseRacingCard: [err, val], val a pointer
ParseRacingCard(doc) ==
    LET result(r) ==
            IF r.err # Nil THEN [err |-> r.err, val |-> <<>>]
            ELSE [err |-> Nil, val |-> <<r.val>>]
    IN  result(unmarshal("RacingCard", doc))

(***************************************************************************)
(* greyhounds/util.go: ParseResult and IsFinalResultsFile                  *)
(***************************************************************************)
\* the largest int, in decimal
MaxInt == "9223372036854775807"

RECURSIVE StripZeros(_)
\* the digits without their leading zeros
StripZeros(s) == IF Len(s) > 1 /\ Take(s, 1) = "0" THEN StripZeros(Drop(s, 1)) ELSE s

RECURSIVE DigitsGreater(_, _)
\* a > b for two strings of digits of the same length
DigitsGreater(a, b) ==
    IF a = "" THEN FALSE
    ELSE IF Take(a, 1) # Take(b, 1) THEN DigitVal(Take(a, 1)) > DigitVal(Take(b, 1))
    ELSE DigitsGreater(Drop(a, 1), Drop(b, 1))

\* strconv.Atoi(s): [ok, n]; ok is FALSE for the syntax error and for the
\* range error, which the caller does not tell apart
strconvAtoi(s) ==
    LET signed == s # "" /\ Take(s, 1) \in {"+", "-"}
        body == IF signed THEN Drop(s, 1) ELSE s
        digits == StripZeros(body)
        neg == signed /\ Take(s, 1) = "-"
    IN  IF body = "" \/ ~AllDigits(body) THEN [ok |-> FALSE, n |-> 0]
        ELSE IF Len(digits) > Len(MaxInt)
                \/ (Len(digits) = Len(MaxInt) /\ DigitsGreater(digits, MaxInt)
                    /\ ~(neg /\ digits = "9223372036854775808"))
        THEN [ok |-> FALSE, n |-> 0]
        ELSE [ok |-> TRUE, n |-> IF neg THEN -Atoi(digits) ELSE Atoi(digits)]

\* strings.HasPrefix(s, prefix)
HasPrefix(s, prefix) == Len(s) >= Len(prefix) /\ Take(s, Len(prefix)) = prefix

\* a ParseResult that takes every position starting with "DN"
ParseResult_Prefix(position) ==
    IF HasPrefix(position, "DN") THEN [place |-> 0, dnf |-> TRUE]
    ELSE IF strconvAtoi(position).ok
    THEN [place |-> strconvAtoi(position).n, dnf |-> FALSE]
    ELSE [place |-> 0, dnf |-> FALSE]

\* ParseResult(position): [place, dnf]
ParseResult(position) ==
    LET placed(r) == IF r.ok THEN [place |-> r.n, dnf |-> FALSE]
                     ELSE [place |-> 0, dnf |-> FALSE]
    IN  IF position = "DN" THEN [place |-> 0, dnf |-> TRUE]
        ELSE placed(strconvAtoi(position))

RECURSIVE FormatNat(_)
FormatNat(n) ==
    IF n < 10 THEN DigitStr[n + 1] ELSE FormatNat(n \div 10) \o DigitStr[(n % 10) + 1]

\* fmt.Sprintf("%d", n)
FormatInt(n) == IF n < 0 THEN "-" \o FormatNat(-n) ELSE FormatNat(n)

\* an IsFinalResultsFile that looks for the meeting's id after the date
IsFinalResultsFile_ComparesID(name, meetingID) ==
    /\ HasPrefix(name, "b")
    /\ Len(name) = Len("b20140601" \o FormatInt(meetingID) \o "2052.xml")
    /\ SubSeq(name, 10, 9 + Len(FormatInt(meetingID))) = FormatInt(meetingID)

\* IsFinalResultsFile(name, meetingID)
IsFinalResultsFile(name, meetingID) ==
    /\ HasPrefix(name, "b")
    /\ Len(name) = Len("b20140601" \o FormatInt(meetingID) \o "2052.xml")

(***************************************************************************)
(* Inputs of the temporal literal parser                                   *)
(***************************************************************************)
\* calendar dates tried, in range or not
DateFields ==
    { [y |-> 2019, m |-> 1, d |-> 15], [y |-> 2020, m |-> 2, d |-> 29],
      [y |-> 2018, m |-> 12, d |-> 31], [y |-> 0, m |-> 1, d |-> 1],
      [y |-> 2019, m |-> 2, d |-> 29], [y |-> 2019, m |-> 13, d |-> 1],
      [y |-> 2019, m |-> 4, d |-> 31], [y |-> 2019, m |-> 6, d |-> 0] }

\* clock readings tried, in range or not
ClockFields ==
    { [h |-> 0, mi |-> 0, s |-> 0], [h |-> 15, mi |-> 5, s |-> 30],
      [h |-> 23, mi |-> 59, s |-> 59], [h |-> 24, mi |-> 0, s |-> 0],
      [h |-> 12, mi |-> 60, s |-> 0], [h |-> 19, mi |-> 27, s |-> 60] }

\* zone designators tried
ZoneFields ==
    { [sg |-> "+", zh |-> 0, zm |-> 0], [sg |-> "+", zh |-> 1, zm |-> 0],
      [sg |-> "-", zh |-> 5, zm |-> 30], [sg |-> "x", zh |-> 1, zm |-> 0] }

Shapes == {"8", "9", "10/", "10-", "11", "17", "18", "19", "20"}

\* the literal of the given shape that spells the given fields
Render(shape, f, c, z) ==
    LET date == Pad4(f.y) \o Pad2(f.m) \o Pad2(f.d)
        hhmm == Pad2(c.h) \o Pad2(c.mi)
        zone == z.sg \o Pad2(z.zh) \o Pad2(z.zm)
    IN  CASE shape = "8" -> date
          [] shape = "9" -> hhmm \o zone
          [] shape = "10/" -> Pad2(f.d) \o "/" \o Pad2(f.m) \o "/" \o Pad4(f.y)
          [] shape = "10-" -> Pad2(f.d) \o "-" \o Pad2(f.m) \o "-" \o Pad4(f.y)
          [] shape = "11" -> hhmm \o Pad2(c.s) \o zone
          [] shape = "17" -> date \o hhmm \o zone
          [] shape = "18" -> date \o "T" \o hhmm \o zone
          [] shape = "19" -> date \o hhmm \o Pad2(c.s) \o zone
          [] shape = "20" -> date \o "T" \o hhmm \o Pad2(c.s) \o zone

\* the fields the literals of a shape spell
ShapeHas(shape) ==
    [date |-> shape \in {"8", "10/", "10-", "17", "18", "19", "20"},
     clock |-> shape \in {"9", "11", "17", "18", "19", "20"},
     sec |-> shape \in {"11", "19", "20"}]

\* the fields a shape does not spell are held at these values
Base ==
    [f |-> [y |-> 2019, m |-> 1, d |-> 15], c |-> [h |-> 15, mi |-> 5, s |-> 30],
     z |-> [sg |-> "+", zh |-> 1, zm |-> 0]]

\* the fields a shape does not spell are held at the base values
ShapeInputs ==
    { [shape |-> sh, f |-> f, c |-> c, z |-> z] :
        sh \in Shapes, f \in DateFields, c \in ClockFields, z \in ZoneFields }

NormalInput(i) ==
    /\ ShapeHas(i.shape).date \/ i.f = Base.f
    /\ ShapeHas(i.shape).clock \/ (i.c = Base.c /\ i.z = Base.z)
    /\ ShapeHas(i.shape).sec \/ i.c.s \in {0, 30}

\* literals of every length 0..MaxLitLen: a rendered literal cut short or
\* padded with digits
CutLiterals ==
    { Take(Render(sh, Base.f, Base.c, Base.z) \o "0000000000000000000000", n) :
        sh \in Shapes, n \in 0..MaxLitLen }

(***************************************************************************)
(* Inputs of addDate, parseDuration and the Yes/No decoder                 *)
(***************************************************************************)
\* time-only values: what a time-only literal parses to, and the same with
\* a sub-second part
TimeOnlyTimes ==
    { [year |-> 0, month |-> 1, day |-> 1, hour |-> h, min |-> mi, sec |-> s,
       nsec |-> ns, off |-> o] :
        h \in {0, 15, 23}, mi \in {0, 5, 59}, s \in {0, 30}, ns \in {0, 500},
        o \in {0, 3600, -19800} }

\* date-only values, in UTC as parsed or in another zone
DateOnlyTimes ==
    { [year |-> f.y, month |-> f.m, day |-> f.d, hour |-> 0, min |-> 0, sec |-> 0,
       nsec |-> 0, off |-> o] :
        f \in { g \in DateFields : g.m \in 1..12 /\ g.d \in 1..daysIn(g.m, g.y) },
        o \in {0, 7200} }

\* the literals of TestParseDuration, and every literal over two digits, as
\* whole part and fraction
DurationParts ==
    { <<"0", "">>, <<"0", "1">>, <<"0", "100">>, <<"0", "01">>, <<"0", "001">>,
      <<"0", "0001">>, <<"5", "">>, <<"80", "">>, <<"500", "">>, <<"9900", "">>,
      <<"10000", "">>, <<"0102", "003">> } \cup
    (StringsOver({"0", "9"}, 1, MaxWholeDigits)
        \X StringsOver({"0", "9"}, 0, MaxFracDigits))

RenderDecimal(p) == IF p[2] = "" THEN p[1] ELSE p[1] \o "." \o p[2]

(***************************************************************************)
(* Input documents.  An attribute option is a value or Absent, the         *)
(* attribute left out of the element (no attribute value contains "<").    *)
(***************************************************************************)
\* most Show children of a Trap element
MaxShows == 2
\* most Race children of a Meeting element
MaxRaces == 2
\* most Meeting children of the root element
MaxMeetings == 2

Absent == "<absent>"

RECURSIVE Attrs(_)
\* the attributes of a list of <<name, option>> pairs, in the order listed
Attrs(pairs) ==
    IF pairs = <<>> THEN <<>>
    ELSE IF Head(pairs)[2] = Absent THEN Attrs(Tail(pairs))
    ELSE <<At(Head(pairs)[1], Head(pairs)[2])>> \o Attrs(Tail(pairs))

\* the two document orders tried for the attributes of an element
Orders == {"listed", "reversed"}

Ordered(order, seq) ==
    IF order = "listed" THEN seq ELSE [i \in 1..Len(seq) |-> seq[Len(seq) + 1 - i]]

\* all sequences of length 0..n over the set S
SeqsUpTo(S, n) == UNION { [1..k -> S] : k \in 0..n }

\* the children of one tag
Kids(tag, els) == [i \in 1..Len(els) |-> Kid(tag, els[i])]

DurationOptions == {Absent, "", "29.56", "hi", "x"}

YesNoOptions == {Absent, "Yes", "no", "maybe"}

PriceElems ==
    { El(Attrs(<<<<"decimal", "3.5">>, <<"numerator", "7">>, <<"denominator", "2">>>>), <<>>),
      El(Attrs(<<<<"decimal", "1.5">>, <<"numerator", "6">>, <<"denominator", "4">>>>), <<>>),
      El(Attrs(<<<<"decimal", "2.0">>>>), <<>>) }

OptionalPriceKids == {<<>>} \cup { <<Kid("Price", p)>> : p \in PriceElems }

\* the Show elements used inside larger documents
FewShowElems ==
    { El(Attrs(<<<<"timeStamp", ts>>, <<"marketNumber", "1">>>>), <<>>) :
        ts \in {"192156+0100", "20180414192156+0100"} }

DogElem ==
    El(Attrs(<<<<"id", "478812">>, <<"name", "Clonmannon Lady">>>>), <<>>)

FewResultElems ==
    { El(Attrs(<<<<"position", "1">>, <<"runTime", rt>>>>), <<>>) : rt \in {"23.91", "hi"} }

\* the Trap elements used inside larger documents
FewTrapKids ==
    { <<>>,
      <<Kid("Trap", El(Attrs(<<<<"trap", "1">>, <<"seeding", "Wide">>>>),
                       <<Kid("Dog", DogElem)>> \o
                       Kids("Show", <<CHOOSE e \in FewShowElems : e.attrs[1].value = "192156+0100">>)))>>,
      <<Kid("Trap", El(Attrs(<<<<"trap", "1">>, <<"vacant", "maybe">>>>), <<>>))>> }

\* the Race elements used inside larger documents
FewRaceElems ==
    { El(Attrs(<<<<"raceNumber", "1">>, <<"time", x[1]>>, <<"type", x[2]>>,
                 <<"state", x[3]>>>>),
         x[4]) :
        x \in { <<"1927+0100", "Flat", Absent,
                  CHOOSE k \in FewTrapKids : k # <<>> /\ Len(k[1].el.kids) > 0>>,
                <<"201804141945+0100", "Hurdles", "Off", <<>>>>,
                <<"1927+0100", "Flat", "Done", <<>>>>,
                <<"1927+0100", "Chase", "Off", <<>>>> } }

\* a Race element with no time and no offTime and two traps: the first with
\* a show with no timeStamp and a show with a time of day, the second with a
\* show with a full timestamp
UntimedRaceElem ==
    El(Attrs(<<<<"raceNumber", "2">>, <<"type", "Flat">>, <<"state", "Off">>>>),
       <<Kid("Trap", El(Attrs(<<<<"trap", "3">>>>),
                        <<Kid("Show", El(Attrs(<<<<"marketNumber", "1">>>>), <<>>)),
                          Kid("Show", El(Attrs(<<<<"timeStamp", "192156+0100">>,
                                                 <<"marketNumber", "2">>>>), <<>>))>>)),
         Kid("Trap", El(Attrs(<<<<"trap", "4">>>>),
                        <<Kid("Show", El(Attrs(<<<<"timeStamp", "20180414192156+0100">>,
                                                 <<"marketNumber", "1">>>>), <<>>))>>))>>)

\* the lists of trap numbers used for the repeated children of a Race element
TrapNoLists == SeqsUpTo({"1", "2"}, 2)

OtherTrapNo(t) == IF t = "1" THEN "2" ELSE "1"

\* the Race elements with repeated Comment, Trap, NonRunner, Forecast and
\* Tricast elements: ts the numbers of the Trap and NonRunner elements, ds
\* those of the Comment, Forecast and Tricast elements; a dividend names the
\* traps 1 and 2, whether or not the race has them
ListRaceElems ==
    { El(Attrs(<<<<"raceNumber", "1">>, <<"time", "1927+0100">>, <<"type", "Flat">>>>),
         Ordered(o,
             <<Kid("Comments",
                   El(<<>>, [i \in 1..Len(ds) |->
                               Kid("Comment", ElText(Attrs(<<<<"source", "PA">>>>), ds[i]))]))>>
             \o [i \in 1..Len(ts) |-> Kid("Trap", El(Attrs(<<<<"trap", ts[i]>>>>), <<>>))]
             \o [i \in 1..Len(ts) |->
                   Kid("NonRunner", El(Attrs(<<<<"trap", ts[i]>>,
                                               <<"reasonForWithdrawal", "Lame">>>>), <<>>))]
             \o <<Kid("Dividends",
                      El(<<>>,
                         Ordered(o,
                             [i \in 1..Len(ds) |->
                                Kid("Forecast",
                                    El(Attrs(<<<<"trap1", ds[i]>>, <<"trap2", OtherTrapNo(ds[i])>>,
                                               <<"dividend", "12.5">>>>), <<>>))]
                             \o [i \in 1..Len(ds) |->
                                   Kid("Tricast",
                                       El(Attrs(<<<<"trap1", ds[i]>>,
                                                  <<"trap2", OtherTrapNo(ds[i])>>,
                                                  <<"trap3", "1">>,
                                                  <<"dividend", "40.1">>>>), <<>>))])))>>)) :
        o \in Orders, ts \in TrapNoLists, ds \in TrapNoLists }

\* the Meeting elements used inside the root element
FewMeetingElems ==
    { El(Attrs(<<<<"meetingId", "337361">>, <<"date", x[1]>>, <<"state", x[2]>>>>),
         Kids("Race", x[3])) :
        x \in { <<"20180414", Absent, <<CHOOSE r \in FewRaceElems : r.kids # <<>> >> >>,
                <<"20180414", "Finished", <<>>>>,
                <<"20180414", "Closed", <<>>>>,
                <<"20180414", "Active",
                  <<CHOOSE r \in FewRaceElems :
                       \E a \in 1..Len(r.attrs) : r.attrs[a].value = "Done">>>>,
                <<"1945+0100", "Delayed",
                  <<CHOOSE r \in FewRaceElems : r.kids # <<>>,
                    CHOOSE r \in FewRaceElems :
                       \E a \in 1..Len(r.attrs) : r.attrs[a].value = "Hurdles">>>>,
                <<Absent, "Active", <<CHOOSE r \in FewRaceElems : r.kids # <<>> >> >> } }

(***************************************************************************)
(* Operations                                                              *)
(***************************************************************************)
Init ==
    /\ op = "idle"
    /\ arg = <<>>
    /\ res = <<>>

\* xmlTimeElement.UnmarshalXMLAttr on a literal that spells known fields
UnmarshalTimeAttr ==
    /\ op = "idle"
    /\ \E i \in ShapeInputs :
        /\ NormalInput(i)
        /\ op' = "xmlTimeElement.UnmarshalXMLAttr"
        /\ arg' = [value |-> Render(i.shape, i.f, i.c, i.z), spelled |-> TRUE,
                   shape |-> i.shape, f |-> i.f, c |-> i.c, z |-> i.z]
        /\ res' = xmlTimeElementUnmarshalXMLAttr("time", arg'.value, ZeroTime)

\* xmlTimeElement.UnmarshalXMLAttr on a literal of any length
UnmarshalTimeAttrCut ==
    /\ op = "idle"
    /\ \E v \in CutLiterals :
        /\ op' = "xmlTimeElement.UnmarshalXMLAttr"
        /\ arg' = [value |-> v, spelled |-> FALSE]
        /\ res' = xmlTimeElementUnmarshalXMLAttr("time", v, ZeroTime)

\* addDate
AddDate ==
    /\ op = "idle"
    /\ \E t \in TimeOnlyTimes, date \in DateOnlyTimes :
        /\ op' = "addDate"
        /\ arg' = [t |-> t, date |-> date]
        /\ res' = addDate(t, date)

\* parseDuration on a decimal literal
ParseDuration ==
    /\ op = "idle"
    /\ \E p \in DurationParts :
        /\ op' = "parseDuration"
        /\ arg' = [s |-> RenderDecimal(p), numeric |-> TRUE, whole |-> p[1], frac |-> p[2]]
        /\ res' = parseDuration(arg'.s)

\* parseDuration on the empty literal or on a literal that is not a number
ParseDurationOther ==
    /\ op = "idle"
    /\ \E s \in {"", "hi", "abc", "x"} :
        /\ op' = "parseDuration"
        /\ arg' = [s |-> s, numeric |-> FALSE]
        /\ res' = parseDuration(s)

\* xmlYesNo.UnmarshalXMLAttr
UnmarshalYesNoAttr ==
    /\ op = "idle"
    /\ \E v \in {"yes", "Yes", "no", "No", "", "YES", "NO", "maybe", "y", "true"},
          b0 \in BOOLEAN, name \in {"handicap", "vacant"} :
        /\ op' = "xmlYesNo.UnmarshalXMLAttr"
        /\ arg' = [name |-> name, value |-> v, b0 |-> b0]
        /\ res' = xmlYesNoUnmarshalXMLAttr(name, v, b0)

\* xmlResult.UnmarshalXML on an element
DecodeResult ==
    /\ op = "idle"
    /\ \E el \in
            { El(Ordered(o, Attrs(<<<<"position", pos>>, <<"sectionalTime", st>>,
                                    <<"runTime", rt>>, <<"weight", w>>,
                                    <<"adjustedTime", at>>>>)),
                 sp) :
                o \in Orders, pos \in {"1", "DN"}, st \in DurationOptions,
                rt \in DurationOptions, at \in DurationOptions,
                w \in {Absent, "32.5", "heavy"},
                sp \in {<<>>, <<Kid("StartingPrice",
                                    El(Attrs(<<<<"marketPos", "1">>>>),
                                       <<Kid("Price", CHOOSE p \in PriceElems : TRUE)>>))>>} } :
        /\ op' = "xmlResult"
        /\ arg' = el
        /\ res' = unmarshal("xmlResult", el)

\* xmlBestTime.UnmarshalXML on an element
DecodeBestTime ==
    /\ op = "idle"
    /\ \E el \in
            { El(Attrs(<<<<"adjustedTime", at>>, <<"date", d>>, <<"raceNumber", "3">>>>), <<>>) :
                at \in DurationOptions, d \in {Absent, "20180414", "2018"} } :
        /\ op' = "xmlBestTime"
        /\ arg' = el
        /\ res' = unmarshal("xmlBestTime", el)

\* xmlBreeding.UnmarshalXML on an element
DecodeBreeding ==
    /\ op = "idle"
    /\ \E el \in
            { El(Attrs(<<<<"sire", "Droopys Jet">>, <<"born", b>>, <<"sex", sx>>>>), <<>>) :
                b \in {Absent, "01/02/2015", "Feb 2015"}, sx \in {Absent, "d", "b", "x", ""} } :
        /\ op' = "xmlBreeding"
        /\ arg' = el
        /\ res' = unmarshal("xmlBreeding", el)

\* xmlFormTrap.UnmarshalXML on an element
DecodeFormTrap ==
    /\ op = "idle"
    /\ \E el \in
            { El(Ordered(o, Attrs(<<<<"trap", "2">>, <<"wide", w>>, <<"seeding", sd>>>>)), <<>>) :
                o \in Orders, w \in YesNoOptions, sd \in {Absent, "Wide", "Rails", "Diagonal"} } :
        /\ op' = "xmlFormTrap"
        /\ arg' = el
        /\ res' = unmarshal("xmlFormTrap", el)

\* xmlFormRace.UnmarshalXML on an element
DecodeFormRace ==
    /\ op = "idle"
    /\ \E el \in
            { El(Attrs(<<<<"meetingId", "337361">>, <<"date", d>>, <<"time", t>>,
                         <<"type", ty>>, <<"winningTime", wt>>>>),
                 ft) :
                d \in {Absent, "20180301"}, t \in {Absent, "1927+0100", "201803011927+0100"},
                ty \in {Absent, "Flat", "Hurdles", "Chase", ""}, wt \in DurationOptions,
                ft \in {<<>>} \cup
                       { <<Kid("FormTrap", El(Attrs(<<<<"trap", "2">>, <<"seeding", sd>>>>), <<>>))>> :
                           sd \in {"Mid", "Diagonal"} } } :
        /\ op' = "xmlFormRace"
        /\ arg' = el
        /\ res' = unmarshal("xmlFormRace", el)

\* xmlShow.UnmarshalXML on an element
DecodeShow ==
    /\ op = "idle"
    /\ \E el \in
            { El(Ordered(o, Attrs(<<<<"timeStamp", ts>>, <<"marketNumber", "1">>,
                                    <<"noOffers", no>>>>)),
                 pr) :
                o \in Orders,
                ts \in {Absent, "192156+0100", "20180414192156+0100", "1921"},
                no \in YesNoOptions, pr \in OptionalPriceKids } :
        /\ op' = "xmlShow"
        /\ arg' = el
        /\ res' = unmarshal("xmlShow", el)

\* xmlPrice.UnmarshalXML on an element
DecodePrice ==
    /\ op = "idle"
    /\ \E el \in
            PriceElems \cup
            { El(Ordered(o, Attrs(<<<<"decimal", dc>>, <<"numerator", n>>,
                                    <<"denominator", dn>>>>)), <<>>) :
                o \in Orders, dc \in {Absent, "3.5", "x"},
                n \in {Absent, "", "0", "6", "7", "-7", "12", "x"},
                dn \in {Absent, "", "0", "2", "4", "-2", "+8", "-", "x"} } :
        /\ op' = "xmlPrice"
        /\ arg' = el
        /\ res' = unmarshal("xmlPrice", el)

\* xmlDog.UnmarshalXML on an element
DecodeDog ==
    /\ op = "idle"
    /\ \E el \in
            { El(Attrs(<<<<"id", "478812">>, <<"name", "Clonmannon Lady">>>>),
                 Kids("BestTime", bestTime) \o Kids("Breeding", breeding) \o
                 Kids("Trainer", trainer) \o Kids("Owner", owner) \o
                 Kids("ForecastPrice", forecastPrice)) :
                bestTime \in {<<>>, <<El(Attrs(<<<<"adjustedTime", "23.91">>>>), <<>>)>>,
                              <<El(<<>>, <<>>)>>},
                breeding \in {<<>>, <<El(Attrs(<<<<"sire", "Droopys Jet">>, <<"sex", "b">>>>),
                                         <<>>)>>},
                trainer \in {<<>>, <<El(Attrs(<<<<"id", "1276">>, <<"name", "J Mullins">>>>),
                                        <<>>)>>,
                             <<El(<<>>, <<>>)>>},
                owner \in {<<>>, <<El(Attrs(<<<<"name", "Mr A Owner">>>>), <<>>)>>},
                forecastPrice \in
                    { <<>> } \cup
                    { <<El(Attrs(<<<<"source", "PA">>>>), kids)>> : kids \in OptionalPriceKids } } :
        /\ op' = "xmlDog"
        /\ arg' = el
        /\ res' = unmarshal("xmlDog", el)

\* xmlTrap.UnmarshalXML on an element
DecodeTrap ==
    /\ op = "idle"
    /\ \E el \in
            { El(Ordered(o, Attrs(<<<<"trap", "1">>, <<"vacant", f[1]>>, <<"wide", f[2]>>,
                                    <<"seeding", sd>>, <<"reserve", f[3]>>>>)),
                 dog \o Kids("Show", shows) \o result) :
                o \in Orders,
                f \in {<<Absent, Absent, Absent>>, <<"Yes", "no", "No">>,
                       <<"maybe", Absent, Absent>>, <<"no", "YES", "maybe">>,
                       <<Absent, Absent, "">>},
                sd \in {Absent, "Wide", "Mid", "Rails", "Diagonal", ""},
                dog \in {<<>>, <<Kid("Dog", DogElem)>>},
                shows \in SeqsUpTo(FewShowElems, MaxShows),
                result \in {<<>>} \cup { <<Kid("Result", r)>> : r \in FewResultElems } } :
        /\ op' = "xmlTrap"
        /\ arg' = el
        /\ res' = unmarshal("xmlTrap", el)

\* xmlRace.UnmarshalXML on an element
DecodeRace ==
    /\ op = "idle"
    /\ \E el \in
            { El(Ordered(o, Attrs(<<<<"revision", "7">>, <<"raceNumber", "1">>, <<"time", t>>,
                                    <<"type", ty>>, <<"handicap", f[1]>>, <<"offTime", ot>>,
                                    <<"winTime", wt>>, <<"state", st>>, <<"Bags", f[2]>>,
                                    <<"tricast", f[3]>>>>)),
                 traps) :
                o \in Orders,
                t \in {Absent, "1927+0100", "201804141927+0100"},
                ty \in {Absent, "Flat", "Hurdles", "Chase"},
                f \in {<<Absent, Absent, Absent>>, <<"Yes", "No", "yes">>,
                       <<"maybe", Absent, Absent>>, <<Absent, "maybe", Absent>>,
                       <<Absent, Absent, "NO">>},
                ot \in {Absent, "192801+0100"},
                wt \in {Absent, "23.91", "hi"},
                st \in {Absent, "Off", "Final Result", "Done", ""},
                traps \in FewTrapKids } \cup ListRaceElems :
        /\ op' = "xmlRace"
        /\ arg' = el
        /\ res' = unmarshal("xmlRace", el)

\* xmlMeeting.UnmarshalXML on an element
DecodeMeeting ==
    /\ op = "idle"
    /\ \E el \in
            { El(Ordered(o, Attrs(<<<<"meetingId", "337361">>, <<"track", "Crayford">>,
                                    <<"date", d>>, <<"state", st>>>>)),
                 Kids("Race", races)) :
                o \in Orders,
                d \in {Absent, "20180414", "14/04/2018", "April", "1945+0100"},
                st \in {Absent, "Active", "Closed", ""},
                races \in SeqsUpTo(FewRaceElems, MaxRaces) \cup {<<UntimedRaceElem>>} } :
        /\ op' = "xmlMeeting"
        /\ arg' = el
        /\ res' = unmarshal("xmlMeeting", el)

\* greyhounds.ParseFile on a document
CallParseFile ==
    /\ op = "idle"
    /\ \E doc \in
            { El(Attrs(<<<<"type", ty>>, <<"state", st>>>>), Kids("Meeting", ms)) :
                ty \in {Absent, "Card", "Race", "Result", ""},
                st \in {Absent, "Final"},
                ms \in SeqsUpTo(FewMeetingElems, MaxMeetings) } :
        /\ op' = "ParseFile"
        /\ arg' = doc
        /\ res' = ParseFile(doc)

\* the Horse elements used inside card races
FewCardHorseElems ==
    { El(Attrs(<<<<"id", "1205570">>, <<"name", "Mr Scaff">>, <<"status", st>>>>),
         <<Kid("Sex", El(Attrs(<<<<"type", sx>>>>), <<>>)),
           Kid("Breeding", El(Attrs(<<<<"type", rel>>, <<"name", "Vocalised">>>>), <<>>))>>) :
        st \in {Absent}, sx \in {"g", "x"}, rel \in {"Sire"} }

\* CardHorse.UnmarshalXML on an element
DecodeCardHorse ==
    /\ op = "idle"
    /\ \E el \in
            { El(Attrs(<<<<"id", "1205570">>, <<"name", "Mr Scaff">>, <<"bred", "IRE">>,
                         <<"status", st>>>>),
                 Kids("Cloth", cloth) \o Kids("Drawn", drawn) \o
                 Kids("Trainer", trainer) \o Kids("Colour", colour) \o
                 Kids("Sex", sex) \o Kids("Breeding", breeding)) :
                st \in {Absent, "Runner", "Doubtful", "NonRunner", ""},
                cloth \in {<<>>, <<El(Attrs(<<<<"number", "4">>>>), <<>>)>>},
                drawn \in {<<>>} \cup
                    { <<El(<<>>, <<Kid("stall", ElText(<<>>, t))>>)>> : t \in {"7", "x"} },
                trainer \in {<<>>, <<El(Attrs(<<<<"id", "19">>, <<"name", "P Kirby">>>>), <<>>)>>},
                colour \in SeqsUpTo({ El(Attrs(<<<<"type", c>>>>), <<>>) : c \in {"b", "ch"} }, 1),
                sex \in {<<>>} \cup
                    { <<El(Attrs(<<<<"type", t>>>>), <<>>)>> : t \in {"g", "m", "x"} },
                breeding \in SeqsUpTo(
                    { El(Attrs(<<<<"type", rel>>, <<"name", "Vocalised">>,
                                 <<"yearBorn", "2006">>>>), <<>>) :
                        rel \in {"Sire", "Dam", "Uncle"} }, 2) } :
        /\ op' = "CardHorse"
        /\ arg' = el
        /\ res' = unmarshal("CardHorse", el)

\* CardRace.UnmarshalXML on an element
DecodeCardRace ==
    /\ op = "idle"
    /\ \E el \in
            { El(Attrs(<<<<"id", "715553">>, <<"date", x[1]>>, <<"time", x[2]>>,
                         <<"raceType", t[1]>>, <<"trackType", t[2]>>,
                         <<"handicap", f[1]>>, <<"trifecta", f[2]>>,
                         <<"showcase", f[3]>>, <<"class", "4">>>>),
                 <<Kid("Title", ElText(<<>>, "Handicap Hurdle"))>> \o
                 Kids("PrizeMoney", prizeMoney) \o
                 Kids("Rating", rating) \o Kids("Horse", horses)) :
                x \in {<<"20190115", "1505+0100">>, <<"20190115", Absent>>,
                       <<Absent, "1505+0100">>, <<"20190231", "1505+0100">>,
                       <<"20190115", "1505">>},
                t \in {<<Absent, Absent>>, <<"Flat", "Turf">>, <<"Hurdles", "Turf">>,
                       <<"Hurdle", "Grass">>, <<"", Absent>>},
                f \in {<<Absent, Absent, Absent>>, <<"Yes", "No", "yes">>,
                       <<"maybe", Absent, Absent>>, <<Absent, "no", "YES">>},
                prizeMoney \in {<<>>} \cup
                    { <<El(Attrs(<<<<"currency", "GBP">>>>),
                           Kids("Prize", [i \in 1..Len(ps) |->
                               El(Attrs(<<<<"position", ps[i][1]>>, <<"amount", ps[i][2]>>>>),
                                  <<>>)]))>> :
                        ps \in {<<>>, <<<<"1", "5000">>, <<"2", "1500">>>>,
                                <<<<"1", "5000">>, <<"1", "700">>>>,
                                <<<<"0", "10">>>>, <<<<"1", "lots">>>>} },
                rating \in {<<>>, <<El(Attrs(<<<<"type", "Official">>, <<"value", "57">>>>), <<>>)>>},
                horses \in SeqsUpTo(FewCardHorseElems, 1) } :
        /\ op' = "CardRace"
        /\ arg' = el
        /\ res' = unmarshal("CardRace", el)

\* the Race elements used inside card meetings
FewCardRaceElems ==
    { El(Attrs(<<<<"id", "715553">>, <<"date", x[1]>>, <<"time", x[2]>>,
                 <<"raceType", x[3]>>>>),
         Kids("Rating", x[4])) :
        x \in { <<"20190115", "1505+0100", "Flat", <<>>>>,
                <<"20190115", "1505+0100", "Steeple", <<>>>>,
                <<Absent, "1505+0100", "Flat", <<>>>>,
                <<"20190115", "1505+0100", "Flat",
                  <<El(Attrs(<<<<"type", "Official">>, <<"value", "57">>>>), <<>>)>>>> } }

\* CardMeeting.UnmarshalXML on an element
DecodeCardMeeting ==
    /\ op = "idle"
    /\ \E el \in
            { El(Ordered(o, Attrs(<<<<"id", "94521">>, <<"course", "Catterick">>,
                                    <<"date", d>>, <<"status", st>>>>)),
                 Kids("WeatherForecast", weather) \o Kids("Race", races)) :
                o \in Orders,
                d \in {Absent, "20190115", "15/01/2019", "2019", "20190231"},
                st \in {Absent, "Dormant", "Inspection", "Abandoned", "Postponed", ""},
                weather \in {<<>>, <<ElText(<<>>, "Sunny")>>},
                races \in SeqsUpTo(FewCardRaceElems, MaxRaces) } :
        /\ op' = "CardMeeting"
        /\ arg' = el
        /\ res' = unmarshal("CardMeeting", el)

\* horses.ParseRacingCard on a document
CallParseRacingCard ==
    /\ op = "idle"
    /\ \E doc \in
            { El(<<>>, Kids("Meeting", ms)) :
                ms \in SeqsUpTo(
                    { El(Attrs(<<<<"id", "94521">>, <<"date", "20190115">>,
                                 <<"status", x[1]>>>>),
                         Kids("Race", x[2])) :
                        x \in {<<Absent, <<>>>>, <<"Postponed", <<>>>>} \cup
                              { <<"Dormant", <<r>>>> : r \in FewCardRaceElems } },
                    MaxMeetings) } :
        /\ op' = "ParseRacingCard"
        /\ arg' = doc
        /\ res' = ParseRacingCard(doc)

\* longest position drawn from the alphabet
MaxPositionLen == 3

\* greyhounds.ParseResult on a position
CallParseResult ==
    /\ op = "idle"
    /\ \E position \in
            StringsOver({"D", "N", "0", "7", "-", "+", "x"}, 0, MaxPositionLen)
                \cup {"DNF", "dn", "12", "007", "1st", "99999999999999999999",
                      "-99999999999999999999"} :
        /\ op' = "ParseResult"
        /\ arg' = position
        /\ res' = ParseResult(position)

\* greyhounds.IsFinalResultsFile on a file name and a meeting id
CallIsFinalResultsFile ==
    /\ op = "idle"
    /\ \E name \in
            { p \o "20180414" \o id \o "1927" \o rev \o ext :
                p \in {"b", "c", "B", ""},
                id \in {"337361", "337356", "33736", "7", ""},
                rev \in {"", "0028", "1"},
                ext \in {".xml", ".XML", ""} } \cup {"", "b"},
          meetingID \in {337361, 33736, 7, 0, -7, -33736} :
        /\ op' = "IsFinalResultsFile"
        /\ arg' = [name |-> name, meetingID |-> meetingID]
        /\ res' = IsFinalResultsFile(name, meetingID)

\* the call returns to its caller, which may call again
Return ==
    /\ op # "idle"
    /\ op' = "idle"
    /\ arg' = <<>>
    /\ res' = <<>>

Next ==
    \/ UnmarshalTimeAttr
    \/ UnmarshalTimeAttrCut
    \/ AddDate
    \/ ParseDuration
    \/ ParseDurationOther
    \/ UnmarshalYesNoAttr
    \/ DecodeResult
    \/ DecodeBestTime
    \/ DecodeBreeding
    \/ DecodeFormTrap
    \/ DecodeFormRace
    \/ DecodeShow
    \/ DecodePrice
    \/ DecodeDog
    \/ DecodeTrap
    \/ DecodeRace
    \/ DecodeMeeting
    \/ CallParseFile
    \/ DecodeCardHorse
    \/ DecodeCardRace
    \/ DecodeCardMeeting
    \/ CallParseRacingCard
    \/ CallParseResult
    \/ CallIsFinalResultsFile
    \/ Return

Spec == Init /\ [][Next]_vars

(***************************************************************************)
(* Properties                                                              *)
(***************************************************************************)
AcceptedLengths == {8, 9, 10, 11, 17, 18, 19, 20}

TimeAttrCall == op = "xmlTimeElement.UnmarshalXMLAttr"

\* C1: the temporal literal parser fails with a format error for every
\* attribute value whose length is not one of 8, 9, 10, 11, 17, 18, 19, 20
\* (the empty string included); it never returns success with the zero
\* timestamp for such a literal.
C1_OtherLengthIsError ==
    (TimeAttrCall /\ Len(arg.value) \notin AcceptedLengths) => res.err # Nil

\* the fields a literal spells are in range for its shape
ValidSpelled(a) ==
    /\ ShapeHas(a.shape).date => (a.f.m \in 1..12 /\ a.f.d \in 1..daysIn(a.f.m, a.f.y))
    /\ ShapeHas(a.shape).clock =>
          /\ a.c.h \in 0..23 /\ a.c.mi \in 0..59
          /\ a.z.sg \in {"+", "-"}
    /\ ShapeHas(a.shape).sec => a.c.s \in 0..59

SpelledOffset(z) == (IF z.sg = "-" THEN -1 ELSE 1) * (z.zh * 3600 + z.zm * 60)

\* C2: for every literal of length 8, 9, 10, 11, 17, 18, 19 or 20 that is
\* validly formatted for its shape the temporal literal parser succeeds and
\* the timestamp's fields equal the literal's: a date-only literal has clock
\* 00:00:00, a time-only literal has year 0, a full literal carries date,
\* clock and the literal's zone offset.
C2_ValidLiteralParses ==
    (TimeAttrCall /\ arg.spelled /\ ValidSpelled(arg)) =>
        /\ Len(arg.value) \in AcceptedLengths
        /\ res.err = Nil
        /\ IF ShapeHas(arg.shape).date
           THEN /\ res.val.year = arg.f.y
                /\ res.val.month = arg.f.m
                /\ res.val.day = arg.f.d
           ELSE res.val.year = 0
        /\ IF ShapeHas(arg.shape).clock
           THEN /\ res.val.hour = arg.c.h
                /\ res.val.min = arg.c.mi
                /\ res.val.sec = (IF ShapeHas(arg.shape).sec THEN arg.c.s ELSE 0)
                /\ res.val.off = SpelledOffset(arg.z)
           ELSE /\ res.val.hour = 0 /\ res.val.min = 0 /\ res.val.sec = 0
                /\ res.val.off = 0
        /\ res.val.nsec = 0

\* a DD/MM/YYYY literal whose day is not a month number parsed to its date
C2_Witness ==
    /\ TimeAttrCall /\ arg.spelled /\ ValidSpelled(arg)
    /\ arg.shape = "10/" /\ arg.f.d > 12
    /\ res.err = Nil /\ res.val.day = arg.f.d

\* C3: addDate(t, date) has the year, month and day of date, the hour,
\* minute and second of t, a zero sub-second part and the zone offset of t,
\* not that of date.
C3_AddDateFields ==
    op = "addDate" =>
        /\ res.year = arg.date.year
        /\ res.month = arg.date.month
        /\ res.day = arg.date.day
        /\ res.hour = arg.t.hour
        /\ res.min = arg.t.min
        /\ res.sec = arg.t.sec
        /\ res.nsec = 0
        /\ res.off = arg.t.off

\* a merge where the two zones differ and t had a sub-second part
C3_Witness ==
    /\ op = "addDate"
    /\ arg.t.off # arg.date.off /\ arg.t.nsec # 0 /\ arg.t.hour = 15
    /\ res.off = arg.t.off /\ res.year = 2019

\* what the documented decoding yields, computed from the number's whole
\* part w and its fraction f of k digits
DocumentedDuration(w, f, k) ==
    LET hours == (w \div 10000) % 100
        minutes == (w \div 100) % 100
        seconds == w % 100
        millis == ((f * 1000) \div Pow10(k)) % 1000
    IN  hours * 3600000 + minutes * 60000 + seconds * 1000 + millis

\* C4: for every non-empty literal that is a non-negative decimal number v
\* parseDuration returns without error hours*1h + minutes*1min + seconds*1s
\* + millis*1ms, hours = floor(v/10000) mod 100, minutes = floor(v/100) mod
\* 100, seconds = floor(v) mod 100, millis = floor(v*1000) mod 1000: digits
\* beyond the third fractional one are truncated ("0.0001" is 0, "80" is
\* 80 s, "9900" is 99 min, "10000" is 1 h, "0102.003" is 1 min 2 s 3 ms).
C4_DurationDecoding ==
    (op = "parseDuration" /\ arg.numeric) =>
        /\ res.err = Nil
        /\ res.val = DocumentedDuration(Atoi(arg.whole),
                                        IF arg.frac = "" THEN 0 ELSE Atoi(arg.frac),
                                        Len(arg.frac))
        /\ arg.s = "0.0001" => res.val = 0
        /\ arg.s = "80" => res.val = 80000
        /\ arg.s = "9900" => res.val = 99 * 60000
        /\ arg.s = "10000" => res.val = 3600000
        /\ arg.s = "0102.003" => res.val = 60000 + 2000 + 3

\* a literal with a fourth fractional digit 9 and more than 59 seconds
C4_Witness ==
    /\ op = "parseDuration" /\ arg.numeric
    /\ arg.s = "990.0099"
    /\ res.err = Nil /\ res.val = 9 * 60000 + 90000 + 9

\* C7: the Yes/No token decoder returns true exactly for "yes" and "Yes",
\* false exactly for "no" and "No", and for every other token fails with an
\* error that names the attribute and the offending value, leaving the
\* target boolean unchanged.
C7_YesNoTokens ==
    op = "xmlYesNo.UnmarshalXMLAttr" =>
        /\ arg.value \in {"yes", "Yes"} => (res.err = Nil /\ res.val = TRUE)
        /\ arg.value \in {"no", "No"} => (res.err = Nil /\ res.val = FALSE)
        /\ arg.value \notin {"yes", "Yes", "no", "No"} =>
              /\ res.err # Nil
              /\ res.err.attr = arg.name
              /\ res.err.value = arg.value
              /\ res.val = arg.b0

\* the token "YES" was refused and the target, true before, is still true
C7_Witness ==
    /\ op = "xmlYesNo.UnmarshalXMLAttr"
    /\ arg.value = "YES" /\ arg.b0 = TRUE
    /\ res.err # Nil /\ res.val = TRUE

(***************************************************************************)
(* Reading an input element                                                *)
(***************************************************************************)
HasAttr(el, name) == \E i \in 1..Len(el.attrs) : el.attrs[i].name = name

\* the value of the attribute, "" if the element has no such attribute
AttrValue(el, name) ==
    IF HasAttr(el, name)
    THEN el.attrs[CHOOSE i \in 1..Len(el.attrs) : el.attrs[i].name = name].value
    ELSE ""

KidsOf(el, tag) ==
    { el.kids[i].el : i \in { j \in 1..Len(el.kids) : el.kids[j].tag = tag } }

\* the attribute is present with a value outside the allowed set
BadCode(el, name, field, allowed) ==
    IF HasAttr(el, name) /\ AttrValue(el, name) \notin allowed
    THEN {<<field, AttrValue(el, name)>>}
    ELSE {}

\* the duration attributes of each element, in the order its decoder parses
\* them, with the fields they fill
DurationFields ==
    [xmlRace |-> <<<<"winTime", "WinTime">>>>,
     xmlBestTime |-> <<<<"adjustedTime", "AdjustedTime">>>>,
     xmlFormRace |-> <<<<"winningTime", "WinningTime">>>>,
     xmlResult |-> <<<<"sectionalTime", "SectionalTime">>, <<"runTime", "RunTime">>,
                     <<"adjustedTime", "AdjustedTime">>>>]

NotNumber(s) == s # "" /\ ~IsDecimal(s)

\* the decoder of the element reaches its calls of parseDuration: the
\* element's attributes and children decoded and the checks made before the
\* calls passed
ReachesDurations ==
    /\ op \in DOMAIN DurationFields
    /\ decodeElement(op, arg).err = Nil
    /\ op = "xmlRace" =>
          /\ AttrValue(arg, "type") \in RaceTypes
          /\ HasAttr(arg, "state") => AttrValue(arg, "state") \in RaceStates

\* the decimal library's error for a literal that is not a number
ParseIntError(s) == [kind |-> "NumError", func |-> "ParseInt", num |-> s]

\* C5: parseDuration on a non-numeric literal returns a zero duration and the
\* decimal library's parse error, unchanged; an element decoder that calls
\* parseDuration on such a literal (race winTime, best-time adjustedTime,
\* form-race winningTime, result sectionalTime/runTime/adjustedTime) fails
\* with that same error.
C5_NonNumericDuration ==
    /\ (op = "parseDuration" /\ NotNumber(arg.s)) =>
          res = [err |-> ParseIntError(arg.s), val |-> 0]
    /\ ReachesDurations =>
          LET f == DurationFields[op]
              bad == { i \in 1..Len(f) : NotNumber(AttrValue(arg, f[i][1])) }
              first == CHOOSE i \in bad : \A j \in bad : i <= j
          IN  bad # {} => res.err = ParseIntError(AttrValue(arg, f[first][1]))

\* a Result whose sectional time is a number and whose run time is "hi"
\* failed with the parse error of "hi"
C5_Witness ==
    /\ op = "xmlResult" /\ ReachesDurations
    /\ AttrValue(arg, "sectionalTime") = "29.56" /\ AttrValue(arg, "runTime") = "hi"
    /\ res.err = ParseIntError("hi")

\* C6: parseDuration("") returns a zero duration and no error; a duration
\* attribute that is absent or empty never makes the decode of its element
\* fail, and its field is the zero duration.
C6_EmptyDuration ==
    /\ (op = "parseDuration" /\ arg.s = "") => res = [err |-> Nil, val |-> 0]
    /\ ReachesDurations =>
          LET f == DurationFields[op]
          IN  /\ (\A i \in 1..Len(f) : ~NotNumber(AttrValue(arg, f[i][1]))) =>
                    res.err = Nil
              /\ res.err = Nil =>
                    \A i \in 1..Len(f) :
                        AttrValue(arg, f[i][1]) = "" => res.val[f[i][2]] = 0

\* a Result without a sectional time and with an empty run time decoded
C6_Witness ==
    /\ op = "xmlResult"
    /\ ~HasAttr(arg, "sectionalTime")
    /\ HasAttr(arg, "runTime") /\ AttrValue(arg, "runTime") = ""
    /\ res.err = Nil /\ res.val.SectionalTime = 0 /\ res.val.RunTime = 0

\* the Yes/No attributes of each element, with the fields they fill
YesNoFields ==
    [xmlRace |-> <<<<"handicap", "Handicap">>, <<"Bags", "Bags">>, <<"tricast", "Tricast">>>>,
     xmlTrap |-> <<<<"vacant", "Vacant">>, <<"wide", "Wide">>, <<"reserve", "Reserve">>>>,
     xmlShow |-> <<<<"noOffers", "NoOffers">>>>,
     CardRace |-> <<<<"handicap", "Handicap">>, <<"trifecta", "Trifecta">>,
                    <<"showcase", "Showcase">>>>]

\* C8: a Yes/No attribute that is absent from its element (race
\* handicap/Bags/tricast, trap vacant/wide/reserve, show noOffers, card race
\* handicap/trifecta/showcase) decodes to false and causes no error: the
\* token decoder is not applied to it.
C8_AbsentYesNo ==
    op \in DOMAIN YesNoFields =>
        \A i \in 1..Len(YesNoFields[op]) :
            LET f == YesNoFields[op][i]
            IN  ~HasAttr(arg, f[1]) =>
                    /\ res.err = Nil => res.val[f[2]] = FALSE
                    /\ ~(res.err.kind = "yesno" /\ res.err.attr = f[1])

\* a card race without any of its three Yes/No attributes decoded, the three
\* fields false
C8_Witness ==
    /\ op = "CardRace"
    /\ ~HasAttr(arg, "handicap") /\ ~HasAttr(arg, "trifecta") /\ ~HasAttr(arg, "showcase")
    /\ res.err = Nil
    /\ ~res.val.Handicap /\ ~res.val.Trifecta /\ ~res.val.Showcase

\* the codes of a document that are present with a value outside their sets
RaceBad(r) ==
    BadCode(r, "type", "Race type", RaceTypes)
        \cup BadCode(r, "state", "Race state", RaceStates)

MeetingBad(m) ==
    BadCode(m, "state", "Meeting state", MeetingStates)
        \cup UNION { RaceBad(r) : r \in KidsOf(m, "Race") }

DocBad(doc) ==
    BadCode(doc, "type", "Message type", MessageTypes)
        \cup UNION { MeetingBad(m) : m \in KidsOf(doc, "Meeting") }

RaceCodesAllowed(r) == r.Type \in RaceTypes /\ r.State \in RaceStates

MeetingCodesAllowed(m) ==
    /\ m.State \in MeetingStates
    /\ \A i \in 1..Len(m.Races) : RaceCodesAllowed(m.Races[i])

\* C9: in the greyhound decoder a document whose message type, a meeting
\* state, a race type or a race state is present with a value outside its
\* allowed set fails to decode; the error of the check of a code names the
\* field and includes the offending value, which is never replaced by a known
\* code; every DogRacing, Meeting and Race that decodes holds only allowed
\* codes in those four fields.
C9_EnumsValidated ==
    op \in {"xmlRace", "xmlMeeting", "ParseFile"} =>
        LET bad == CASE op = "xmlRace" -> RaceBad(arg)
                     [] op = "xmlMeeting" -> MeetingBad(arg)
                     [] op = "ParseFile" -> DocBad(arg)
            own == CASE op = "xmlRace" ->
                         IF BadCode(arg, "type", "Race type", RaceTypes) # {}
                         THEN BadCode(arg, "type", "Race type", RaceTypes)
                         ELSE IF HasAttr(arg, "type")
                         THEN BadCode(arg, "state", "Race state", RaceStates)
                         ELSE {}
                     [] op = "xmlMeeting" ->
                         BadCode(arg, "state", "Meeting state", MeetingStates)
                     [] op = "ParseFile" ->
                         BadCode(arg, "type", "Message type", MessageTypes)
            type == IF op = "ParseFile" THEN "DogRacing" ELSE op
        IN  /\ bad # {} => res.err # Nil
            /\ res.err.kind = "enum" =>
                  <<res.err.field, res.err.value>> \in
                      bad \cup {<<"Message type", "">>, <<"Race type", "">>}
            /\ (own # {} /\ decodeElement(type, arg).err = Nil) =>
                  /\ res.err.kind = "enum"
                  /\ <<res.err.field, res.err.value>> \in own
            /\ res.err = Nil =>
                  CASE op = "xmlRace" -> RaceCodesAllowed(res.val)
                    [] op = "xmlMeeting" -> MeetingCodesAllowed(res.val)
                    [] op = "ParseFile" ->
                         /\ res.val[1].Type \in MessageTypes
                         /\ \A i \in 1..Len(res.val[1].Meetings) :
                               MeetingCodesAllowed(res.val[1].Meetings[i])

\* a document with a race whose state is "Done" failed with the error of the
\* race state check, which holds "Done"
C9_Witness ==
    /\ op = "ParseFile"
    /\ <<"Race state", "Done">> \in DocBad(arg)
    /\ res.err = EnumError("Race state", "Done")

\* C10: every field typed as a closed code is checked against its allowed
\* set: a trap or form-trap seeding outside {Wide, Mid, Rails}, a dog sex
\* outside {d, b}, a form-race type outside {Flat, Hurdles}, and in the horse
\* card decoder a meeting status, race type, track type, horse status, horse
\* sex or breeding relation outside its listed constants makes the decode
\* fail.
C10_EveryClosedCodeChecked ==
    LET kidsBad(tag, name, allowed) ==
            UNION { BadCode(k, name, tag, allowed) : k \in KidsOf(arg, tag) }
        bad == CASE op \in {"xmlTrap", "xmlFormTrap"} ->
                        BadCode(arg, "seeding", "seeding", TrapSeedings)
                 [] op = "xmlBreeding" -> BadCode(arg, "sex", "sex", DogSexes)
                 [] op = "xmlFormRace" -> BadCode(arg, "type", "type", RaceTypes)
                 [] op = "CardMeeting" ->
                        BadCode(arg, "status", "status", HorseCodes.CardMeetingStatus)
                 [] op = "CardRace" ->
                        BadCode(arg, "raceType", "raceType", HorseCodes.RaceType)
                            \cup BadCode(arg, "trackType", "trackType", HorseCodes.TrackType)
                 [] op = "CardHorse" ->
                        BadCode(arg, "status", "status", HorseCodes.CardHorseStatus)
                            \cup kidsBad("Sex", "type", HorseCodes.Sex)
                            \cup kidsBad("Breeding", "type", HorseCodes.HorseRelation)
                 [] OTHER -> {}
    IN  bad # {} => res.err # Nil

\* the State a decoded greyhound Meeting or Race must hold for its element
StateOf(el) == IF HasAttr(el, "state") THEN AttrValue(el, "state") ELSE "Dormant"

\* C11: in the greyhound decoder a Meeting element with no state attribute
\* decodes with State = Dormant and a Race element with no state attribute
\* decodes with State = Dormant; when the attribute is present its value
\* replaces the default.
C11_StateDefaultsToDormant ==
    LET raceOK(el, r) == r.State = StateOf(el)
        meetingOK(el, m) ==
            /\ m.State = StateOf(el)
            /\ \A i \in 1..Len(m.Races) : raceOK(el.kids[i].el, m.Races[i])
    IN  /\ (op = "xmlRace" /\ res.err = Nil) => raceOK(arg, res.val)
        /\ (op = "xmlMeeting" /\ res.err = Nil) => meetingOK(arg, res.val)
        /\ (op = "ParseFile" /\ res.err = Nil) =>
              \A i \in 1..Len(res.val[1].Meetings) :
                  meetingOK(arg.kids[i].el, res.val[1].Meetings[i])
        /\ (op = "xmlRace" /\ ~HasAttr(arg, "state")) =>
              ~(res.err.kind = "enum" /\ res.err.field = "Race state")
        /\ (op = "xmlMeeting" /\ ~HasAttr(arg, "state")) =>
              ~(res.err.kind = "enum" /\ res.err.field = "Meeting state")

\* a document whose Meeting and whose Race have no state attribute decoded,
\* both with State = Dormant
C11_Witness ==
    /\ op = "ParseFile"
    /\ res.err = Nil
    /\ \E i \in 1..Len(arg.kids) :
          /\ ~HasAttr(arg.kids[i].el, "state")
          /\ res.val[1].Meetings[i].State = "Dormant"
          /\ \E j \in 1..Len(arg.kids[i].el.kids) :
                /\ ~HasAttr(arg.kids[i].el.kids[j].el, "state")
                /\ res.val[1].Meetings[i].Races[j].State = "Dormant"

\* C12: omitting an enumerated attribute never makes decoding fail: a
\* greyhound document whose root has no type attribute, or whose Race has no
\* type attribute, does not fail the check of that attribute, the field
\* taking an initial value that the check accepts.
C12_OmittedTypeDecodes ==
    /\ (op = "ParseFile" /\ ~HasAttr(arg, "type")) =>
          /\ ~(res.err.kind = "enum" /\ res.err.field = "Message type")
          /\ res.err = Nil => res.val[1].Type \in MessageTypes
    /\ (op = "xmlRace" /\ ~HasAttr(arg, "type")) =>
          /\ ~(res.err.kind = "enum" /\ res.err.field = "Race type")
          /\ res.err = Nil => res.val.Type \in RaceTypes

\* C13: in the horse card decoder a Meeting element that omits its status
\* attribute decodes to a CardMeeting whose Status is the documented initial
\* state Dormant, not the empty string.
C13_CardMeetingStatusDefault ==
    /\ (op = "CardMeeting" /\ res.err = Nil /\ ~HasAttr(arg, "status")) =>
          res.val.Status = "Dormant"
    /\ (op = "ParseRacingCard" /\ res.err = Nil) =>
          \A i \in 1..Len(res.val[1]) :
              ~HasAttr(arg.kids[i].el, "status") => res.val[1][i].Status = "Dormant"

\* the number of children of the element with the tag
CountKids(el, tag) == Cardinality({ j \in 1..Len(el.kids) : el.kids[j].tag = tag })

\* C14: every card Meeting returned by ParseRacingCard carries the races of
\* its Meeting element: CardMeeting.Races holds one CardRace per Race child
\* element, in document order, so a meeting element with at least one Race
\* child yields len(Races) >= 1.
C14_CardMeetingRaces ==
    LET races(el) == SelectSeq(el.kids, LAMBDA k : k.tag = "Race")
        carried(el, m) ==
            /\ Len(m.Races) = CountKids(el, "Race")
            /\ \A j \in 1..Len(m.Races) :
                  m.Races[j] = unmarshal("CardRace", races(el)[j].el).val
    IN  /\ (op = "CardMeeting" /\ res.err = Nil) => carried(arg, res.val)
        /\ (op = "ParseRacingCard" /\ res.err = Nil) =>
              \A i \in 1..Len(res.val[1]) : carried(arg.kids[i].el, res.val[1][i])

TimeOnly(el, name) == Len(AttrValue(el, name)) \in {9, 11}

RECURSIVE NestedErrors(_, _)
\* the errors of the decoders of an element and of the elements below it
NestedErrors(type, el) ==
    ({unmarshal(type, el).err} \ {Nil})
        \cup UNION { NestedErrors(KidTypes(type)[el.kids[i].tag], el.kids[i].el) :
                       i \in { j \in 1..Len(el.kids) :
                                 el.kids[j].tag \in DOMAIN KidTypes(type) } }

SpellsInt(s) ==
    LET body == IF s # "" /\ CharAt(s, 1) \in {"+", "-"} THEN Drop(s, 1) ELSE s
    IN  body # "" /\ AllDigits(body) /\ Len(body) < Len(MaxInt)

\* the integer that the position spells
SpelledInt(s) ==
    LET body == IF CharAt(s, 1) \in {"+", "-"} THEN Drop(s, 1) ELSE s
        RECURSIVE sum(_)
        sum(i) == IF i > Len(body) THEN 0
                  ELSE DigitVal(CharAt(body, i)) * Pow10(Len(body) - i) + sum(i + 1)
    IN  IF CharAt(s, 1) = "-" THEN 0 - sum(1) ELSE sum(1)

\* C19: ParseResult(position) returns (0, true) if and only if position is
\* exactly "DN"; for a position that is a decimal integer n (a value of int)
\* it returns (n, false); for every other string, "" included, it returns
\* (0, false).  The did-not-finish flag is never true together with a
\* non-zero placement.
C19_ParseResult ==
    op = "ParseResult" =>
        /\ res = [place |-> 0, dnf |-> TRUE] <=> arg = "DN"
        /\ res.dnf <=> arg = "DN"
        /\ SpellsInt(arg) => res = [place |-> SpelledInt(arg), dnf |-> FALSE]
        /\ (~SpellsInt(arg) /\ arg # "DN") => res = [place |-> 0, dnf |-> FALSE]
        /\ res.dnf => res.place = 0

\* the position "DN" gave placement 0 and did-not-finish
C19_Witness ==
    /\ op = "ParseResult"
    /\ arg = "DN"
    /\ res = [place |-> 0, dnf |-> TRUE]

\* the number of characters of n printed in decimal
DecimalChars(n) ==
    LET m == IF n < 0 THEN 0 - n ELSE n
        digits == CHOOSE k \in 1..10 : m < Pow10(k) /\ (k = 1 \/ m >= Pow10(k - 1))
    IN  IF n < 0 THEN digits + 1 ELSE digits

\* C20: IsFinalResultsFile(name, meetingID) returns true exactly when name
\* starts with "b" and the length of name equals 1 + 8 + (number of
\* characters of meetingID printed in decimal) + 4 + 4; names carrying an
\* extra revision suffix return false, and the digits at the meeting-id
\* position are not compared with meetingID.
C20_IsFinalResultsFile ==
    op = "IsFinalResultsFile" =>
        /\ res <=> /\ arg.name # ""
                   /\ CharAt(arg.name, 1) = "b"
                   /\ Len(arg.name) = 1 + 8 + DecimalChars(arg.meetingID) + 4 + 4
        /\ \A id \in {"337361", "337356"}, rev \in {"0028", "1"} :
              (arg.meetingID = 337361
                  /\ arg.name = "b20180414" \o id \o "1927" \o rev \o ".xml") => ~res
        /\ (arg.meetingID = 337361 /\ arg.name = "b201804143373561927.xml") => res

\* the name of a final results file of meeting 337356 is taken for one of
\* meeting 337361
C20_Witness ==
    /\ op = "IsFinalResultsFile"
    /\ arg = [name |-> "b201804143373561927.xml", meetingID |-> 337361]
    /\ res = TRUE

\* the Prize elements of a card Race element, in document order
PrizeElems(el) ==
    LET money == SelectSeq(el.kids, LAMBDA k : k.tag = "PrizeMoney")
        prizes(m) == SelectSeq(m.kids, LAMBDA k : k.tag = "Prize")
    IN  IF money = <<>> THEN <<>>
        ELSE [i \in 1..Len(prizes(money[Len(money)].el)) |->
                 prizes(money[Len(money)].el)[i].el]

\* the Prizes of a decoded card race hold, for every position of a Prize
\* element, the amount of the last Prize element of that position, and
\* nothing else
LastPrizeWins(el, race) ==
    LET list == PrizeElems(el)
        position(i) == Atoi(AttrValue(list[i], "position"))
        last(p) == CHOOSE i \in 1..Len(list) :
                       /\ position(i) = p
                       /\ \A j \in (i + 1)..Len(list) : position(j) # p
    IN  /\ DOMAIN race.Prizes = { position(i) : i \in 1..Len(list) }
        /\ \A p \in DOMAIN race.Prizes :
              race.Prizes[p] = [whole |-> AttrValue(list[last(p)], "amount"), frac |-> ""]
        /\ list = <<>> => race.Prizes = <<>>

C22_RatingDecodes ==
    LET ratings == SelectSeq(arg.kids, LAMBDA k : k.tag = "Rating")
        others == [arg EXCEPT !.kids = SelectSeq(arg.kids, LAMBDA k : k.tag # "Rating")]
    IN  /\ (op = "CardRace" /\ unmarshal("CardRace", others).err = Nil) =>
              /\ res.err = Nil
              /\ Len(res.val.Ratings) = Len(ratings)
              /\ \A i \in 1..Len(ratings) :
                    res.val.Ratings[i] =
                        [Type |-> AttrValue(ratings[i].el, "type"),
                         Value |-> Atoi(AttrValue(ratings[i].el, "value"))]
        /\ op \in {"CardRace", "CardMeeting", "ParseRacingCard"} =>
              ~(res.err.kind = "xml" /\ res.err.type = "Rating")

\* C23: optional substructures are present-or-absent in the decoded model:
\* when the corresponding child element is missing from the document the
\* decoded field is absent (nil), never a zero-filled record.  This holds for
\* a trap's Dog and Result, a race's Dividends, a show's Price, a result's
\* StartingPrice and a dog's BestTime, Breeding, ForecastPrice, Trainer and
\* Owner.
C23_OptionalIsNilWhenMissing ==
    LET optional == [xmlTrap |-> {<<"Dog", "Dog">>, <<"Result", "Result">>},
                     xmlRace |-> {<<"Dividends", "Dividends">>},
                     xmlShow |-> {<<"Price", "Price">>},
                     xmlResult |-> {<<"StartingPrice", "StartingPrice">>},
                     xmlDog |-> {<<"BestTime", "BestTime">>, <<"Breeding", "Breeding">>,
                                 <<"ForecastPrice", "ForecastPrice">>,
                                 <<"Trainer", "Trainer">>, <<"Owner", "Owner">>}]
    IN  (op \in DOMAIN optional /\ res.err = Nil) =>
            \A x \in optional[op] :
                CountKids(arg, x[1]) = 0 => res.val[x[2]] = <<>>

\* the error of CardRace.UnmarshalXML for its date and time attributes
IsStartTimeError(err) == err.kind = "CardRace.date and CardRace.time"

MergedOrSame(t, date) ==
    IF t.year = 0
    THEN [year |-> date.year, month |-> date.month, day |-> date.day,
          hour |-> t.hour, min |-> t.min, sec |-> t.sec, nsec |-> 0, off |-> t.off]
    ELSE t

\* the race of a decoded meeting against the race as its element decodes
RaceMergedOnly(race, raw, date) ==
    /\ race.Time = MergedOrSame(raw.Time, date)
    /\ race.OffTime = MergedOrSame(raw.OffTime, date)
    /\ [race EXCEPT !.Time = raw.Time, !.OffTime = raw.OffTime, !.Traps = raw.Traps] = raw
    /\ Len(race.Traps) = Len(raw.Traps)
    /\ \A i \in 1..Len(raw.Traps) :
          /\ [race.Traps[i] EXCEPT !.Shows = raw.Traps[i].Shows] = raw.Traps[i]
          /\ Len(race.Traps[i].Shows) = Len(raw.Traps[i].Shows)
          /\ \A j \in 1..Len(raw.Traps[i].Shows) :
                /\ race.Traps[i].Shows[j].TimeStamp =
                      MergedOrSame(raw.Traps[i].Shows[j].TimeStamp, date)
                /\ [race.Traps[i].Shows[j] EXCEPT
                       !.TimeStamp = raw.Traps[i].Shows[j].TimeStamp] =
                      raw.Traps[i].Shows[j]

\* C25: during greyhound Meeting decode the Partial Date Merger is applied to
\* a Race.Time, Race.OffTime or trap Show.TimeStamp if and only if that
\* decoded value has year 0; a value that already carries a real year is
\* passed through unchanged, and merging a value changes only that value: the
\* meeting Date and every other field of the race, trap and show are left as
\* decoded.
C25_MergeOnlyYearZero ==
    LET date(el) == IF HasAttr(el, "date") THEN timeSwitch(AttrValue(el, "date")).tm
                    ELSE ZeroTime
        meetingOK(el, m) ==
            /\ m.Date = date(el)
            /\ \A j \in 1..Len(m.Races) :
                  RaceMergedOnly(m.Races[j], unmarshal("xmlRace", el.kids[j].el).val,
                                 date(el))
    IN  /\ (op = "xmlMeeting" /\ res.err = Nil) => meetingOK(arg, res.val)
        /\ (op = "ParseFile" /\ res.err = Nil) =>
              \A i \in 1..Len(res.val[1].Meetings) :
                  meetingOK(arg.kids[i].el, res.val[1].Meetings[i])

\* a meeting dated 14/04/2018 decoded a race timed 1927+0100 to 19:27 on
\* that day and left a race timed 201804141945+0100 as decoded
C25_Witness ==
    /\ op = "xmlMeeting"
    /\ res.err = Nil
    /\ AttrValue(arg, "date") = "14/04/2018"
    /\ Len(arg.kids) = 2
    /\ AttrValue(arg.kids[1].el, "time") = "1927+0100"
    /\ AttrValue(arg.kids[2].el, "time") = "201804141945+0100"
    /\ res.val.Races[1].Time.year = 2018 /\ res.val.Races[1].Time.hour = 19
    /\ res.val.Races[2].Time = unmarshal("xmlRace", arg.kids[2].el).val.Time
    /\ res.val.Races[1].Traps[1].Shows[1].TimeStamp.year = 2018

\* the timestamp attributes of the race of a decoded meeting that its element
\* does not carry are zero timestamps
AbsentStaysZero(raceEl, race) ==
    /\ ~HasAttr(raceEl, "time") => race.Time = ZeroTime
    /\ ~HasAttr(raceEl, "offTime") => race.OffTime = ZeroTime
    /\ \A i \in 1..Len(race.Traps) : \A j \in 1..Len(race.Traps[i].Shows) :
          ~HasAttr(raceEl.kids[i].el.kids[
                      CHOOSE k \in 1..Len(raceEl.kids[i].el.kids) :
                          /\ raceEl.kids[i].el.kids[k].tag = "Show"
                          /\ Cardinality({ n \in 1..k :
                                 raceEl.kids[i].el.kids[n].tag = "Show" }) = j].el,
                   "timeStamp")
              => race.Traps[i].Shows[j].TimeStamp = ZeroTime

\* C26: a timestamp attribute that is absent from its element decodes to the
\* zero timestamp and stays the zero timestamp in the final object: it is
\* not taken for a time of day and is not merged with the Meeting date.
C26_AbsentStaysZero ==
    /\ (op = "xmlRace" /\ res.err = Nil) =>
          /\ ~HasAttr(arg, "time") => res.val.Time = ZeroTime
          /\ ~HasAttr(arg, "offTime") => res.val.OffTime = ZeroTime
    /\ (op = "xmlShow" /\ res.err = Nil /\ ~HasAttr(arg, "timeStamp")) =>
          res.val.TimeStamp = ZeroTime
    /\ (op = "xmlMeeting" /\ res.err = Nil) =>
          /\ ~HasAttr(arg, "date") => res.val.Date = ZeroTime
          /\ \A j \in 1..Len(res.val.Races) :
                AbsentStaysZero(arg.kids[j].el, res.val.Races[j])
    /\ (op = "ParseFile" /\ res.err = Nil) =>
          \A i \in 1..Len(res.val[1].Meetings) :
              \A j \in 1..Len(res.val[1].Meetings[i].Races) :
                  AbsentStaysZero(arg.kids[i].el.kids[j].el,
                                  res.val[1].Meetings[i].Races[j])

\* a meeting dated 20180414 decoded a race with no time and no offTime, and
\* its show with no timeStamp, to zero timestamps
C26_Witness ==
    /\ op = "xmlMeeting"
    /\ res.err = Nil
    /\ AttrValue(arg, "date") = "20180414"
    /\ res.val.Date.year = 2018
    /\ Len(res.val.Races) = 1
    /\ ~HasAttr(arg.kids[1].el, "time") /\ ~HasAttr(arg.kids[1].el, "offTime")
    /\ res.val.Races[1].Time = ZeroTime
    /\ res.val.Races[1].OffTime = ZeroTime
    /\ Len(res.val.Races[1].Traps) = 2
    /\ res.val.Races[1].Traps[1].Shows[1].TimeStamp = ZeroTime

\* the children of the element with the tag, in document order
ListOf(el, tag) == SelectSeq(el.kids, LAMBDA k : k.tag = tag)

\* the decodes of the children of the element with the tag, in document order
DecodedList(type, el, tag) ==
    [k \in 1..Len(ListOf(el, tag)) |-> unmarshal(type, ListOf(el, tag)[k].el).val]

\* the shows of a decoded trap are the decodes of its Show children
TrapListsKept(el, trap) == trap.Shows = DecodedList("xmlShow", el, "Show")

\* the lists of a decoded race are the decodes of the race's children
RaceListsKept(el, race) ==
    /\ race.Traps = DecodedList("xmlTrap", el, "Trap")
    /\ \A i \in 1..Len(race.Traps) : TrapListsKept(ListOf(el, "Trap")[i].el, race.Traps[i])
    /\ race.NonRunners = DecodedList("xmlNonRunner", el, "NonRunner")
    /\ Len(ListOf(el, "Comments")) = 1 =>
          race.Comments = DecodedList("xmlComment", ListOf(el, "Comments")[1].el, "Comment")
    /\ Len(ListOf(el, "Dividends")) = 1 =>
          /\ race.Dividends[1].Forecast =
                DecodedList("xmlForecast", ListOf(el, "Dividends")[1].el, "Forecast")
          /\ race.Dividends[1].Tricast =
                DecodedList("xmlTricast", ListOf(el, "Dividends")[1].el, "Tricast")

\* the races of a decoded meeting are the decodes of its Race children, with
\* the timestamps merged in place
MeetingListsKept(el, m) ==
    /\ Len(m.Races) = Len(ListOf(el, "Race"))
    /\ \A j \in 1..Len(m.Races) :
          /\ RaceListsKept(ListOf(el, "Race")[j].el,
                           unmarshal("xmlRace", ListOf(el, "Race")[j].el).val)
          /\ RaceMergedOnly(m.Races[j],
                            unmarshal("xmlRace", ListOf(el, "Race")[j].el).val, m.Date)

\* C27: list-valued fields preserve document order and cardinality: after a
\* successful greyhound decode the k-th Meeting, Race, Trap, Show, NonRunner,
\* Comment, Forecast and Tricast of the object is the decode of the k-th
\* corresponding child element of its parent, with no element dropped,
\* duplicated or reordered (shows merged with the meeting date included).
C27_ListsKeepDocumentOrder ==
    /\ (op = "xmlTrap" /\ res.err = Nil) => TrapListsKept(arg, res.val)
    /\ (op = "xmlRace" /\ res.err = Nil) => RaceListsKept(arg, res.val)
    /\ (op = "xmlMeeting" /\ res.err = Nil) => MeetingListsKept(arg, res.val)
    /\ (op = "ParseFile" /\ res.err = Nil) =>
          /\ Len(res.val[1].Meetings) = Len(ListOf(arg, "Meeting"))
          /\ \A i \in 1..Len(res.val[1].Meetings) :
                /\ res.val[1].Meetings[i] =
                      unmarshal("xmlMeeting", ListOf(arg, "Meeting")[i].el).val
                /\ MeetingListsKept(ListOf(arg, "Meeting")[i].el, res.val[1].Meetings[i])

\* a race decoded two Traps numbered 2 and 1, two NonRunners, and two
\* Comments, Forecasts and Tricasts numbered 1 and 2, each list in the order
\* of the document
C27_Witness ==
    /\ op = "xmlRace"
    /\ res.err = Nil
    /\ Len(res.val.Traps) = 2
    /\ Len(res.val.NonRunners) = 2
    /\ Len(res.val.Comments) = 2
    /\ res.val.Dividends # <<>>
    /\ Len(res.val.Dividends[1].Forecast) = 2
    /\ Len(res.val.Dividends[1].Tricast) = 2
    /\ res.val.Traps[1].TrapNo = 2 /\ res.val.Traps[2].TrapNo = 1
    /\ res.val.NonRunners[1].Trap = 2 /\ res.val.NonRunners[2].Trap = 1
    /\ res.val.Comments[1].Text = "1" /\ res.val.Comments[2].Text = "2"
    /\ res.val.Dividends[1].Forecast[1].Trap1 = 1
    /\ res.val.Dividends[1].Forecast[2].Trap1 = 2
    /\ res.val.Dividends[1].Tricast[1].Trap1 = 1
    /\ res.val.Dividends[1].Tricast[2].Trap1 = 2
    /\ arg.kids[1].tag = "Comments"

\* the attribute is absent, empty or spells an integer
IntAttrValid(el, name) ==
    ~HasAttr(el, name) \/ AttrValue(el, name) = "" \/ SpellsInt(AttrValue(el, name))

\* the integer of a valid attribute, 0 when it is absent or empty
IntAttr(el, name) ==
    IF AttrValue(el, name) = "" THEN 0 ELSE SpelledInt(AttrValue(el, name))

\* the largest common factor looked for in a ratio
MaxFactor == 12

\* C28: a Price element decodes to a Price whose Fractional equals
\* numerator/denominator as an exact ratio in lowest terms (6/4 equals 3/2)
\* whenever the denominator attribute is non-zero; when the denominator is 0
\* or absent the decode still succeeds and Fractional is the zero ratio while
\* Decimal carries the decimal attribute.
C28_PriceFractional ==
    op = "xmlPrice" =>
        LET validInts == IntAttrValid(arg, "numerator") /\ IntAttrValid(arg, "denominator")
            validDecimal ==
                ~HasAttr(arg, "decimal") \/ decimalFromString(AttrValue(arg, "decimal")).err = Nil
            f == res.val.Fractional
        IN  /\ (res.err = Nil /\ IntAttr(arg, "denominator") # 0) =>
                  /\ f.den > 0
                  /\ f.num * IntAttr(arg, "denominator") = IntAttr(arg, "numerator") * f.den
                  /\ \A k \in 2..MaxFactor : ~(f.num % k = 0 /\ f.den % k = 0)
            /\ (validInts /\ validDecimal /\ IntAttr(arg, "denominator") = 0) =>
                  /\ res.err = Nil
                  /\ f = [num |-> 0, den |-> 1]
                  /\ res.val.Decimal =
                        IF HasAttr(arg, "decimal")
                        THEN decimalFromString(AttrValue(arg, "decimal")).n
                        ELSE ZeroNumber

\* a Price with numerator 6 and denominator 4 decoded to the ratio 3/2
C28_Witness ==
    /\ op = "xmlPrice"
    /\ res.err = Nil
    /\ AttrValue(arg, "numerator") = "6"
    /\ AttrValue(arg, "denominator") = "4"
    /\ res.val.Fractional = [num |-> 3, den |-> 2]
    /\ res.val.Decimal = [whole |-> "1", frac |-> "5"]

\* a Price with numerator 7 and denominator 0 decoded to the zero ratio
C28_ZeroDenominatorReached ==
    /\ op = "xmlPrice"
    /\ res.err = Nil
    /\ AttrValue(arg, "numerator") = "7"
    /\ AttrValue(arg, "denominator") = "0"
    /\ res.val.Fractional = [num |-> 0, den |-> 1]

\* the trap numbers of the traps of a decoded race
TrapNos(race) == { race.Traps[i].TrapNo : i \in 1..Len(race.Traps) }

\* the trap numbers that the dividends of a decoded race refer to
DividendTraps(race) ==
    IF race.Dividends = <<>> THEN {}
    ELSE UNION { {race.Dividends[1].Forecast[k].Trap1, race.Dividends[1].Forecast[k].Trap2} :
                   k \in 1..Len(race.Dividends[1].Forecast) }
         \cup UNION { {race.Dividends[1].Tricast[k].Trap1, race.Dividends[1].Tricast[k].Trap2,
                       race.Dividends[1].Tricast[k].Trap3} :
                        k \in 1..Len(race.Dividends[1].Tricast) }

\* C29 (as stated): in every successfully decoded greyhound Race every
\* Trap1/Trap2 of a Forecast and every Trap1/Trap2/Trap3 of a Tricast equals
\* the TrapNo of some Trap in that Race's Traps.
C29_DividendsReferenceTraps ==
    (op = "xmlRace" /\ res.err = Nil) => DividendTraps(res.val) \subseteq TrapNos(res.val)

\* C29 (amended): in every successfully decoded greyhound Race every Trap1,
\* Trap2 and Trap3 of a Forecast or Tricast is the number of the trap1, trap2
\* or trap3 attribute of its element, which the decoder does not compare with
\* the race's traps: it equals the TrapNo of some Trap of the Race exactly
\* when the document gives that number to the trap attribute of a Trap child
\* of the Race element.
C29_DividendsCarryAttributes ==
    (op = "xmlRace" /\ res.err = Nil /\ Len(ListOf(arg, "Dividends")) = 1) =>
        LET dv == ListOf(arg, "Dividends")[1].el
            named == { IntAttr(ListOf(arg, "Trap")[i].el, "trap") :
                         i \in 1..Len(ListOf(arg, "Trap")) }
            carried(field, attr, entry, el) ==
                /\ entry[field] = IntAttr(el, attr)
                /\ entry[field] \in TrapNos(res.val) <=> IntAttr(el, attr) \in named
        IN  /\ Len(res.val.Dividends[1].Forecast) = Len(ListOf(dv, "Forecast"))
            /\ Len(res.val.Dividends[1].Tricast) = Len(ListOf(dv, "Tricast"))
            /\ \A k \in 1..Len(ListOf(dv, "Forecast")) :
                  /\ carried("Trap1", "trap1", res.val.Dividends[1].Forecast[k],
                             ListOf(dv, "Forecast")[k].el)
                  /\ carried("Trap2", "trap2", res.val.Dividends[1].Forecast[k],
                             ListOf(dv, "Forecast")[k].el)
            /\ \A k \in 1..Len(ListOf(dv, "Tricast")) :
                  /\ carried("Trap1", "trap1", res.val.Dividends[1].Tricast[k],
                             ListOf(dv, "Tricast")[k].el)
                  /\ carried("Trap2", "trap2", res.val.Dividends[1].Tricast[k],
                             ListOf(dv, "Tricast")[k].el)
                  /\ carried("Trap3", "trap3", res.val.Dividends[1].Tricast[k],
                             ListOf(dv, "Tricast")[k].el)

\* a race with the traps 1 and 2 decoded a forecast and a tricast on the
\* traps 1 and 2
C29_Witness ==
    /\ op = "xmlRace"
    /\ res.err = Nil
    /\ TrapNos(res.val) = {1, 2}
    /\ res.val.Dividends # <<>>
    /\ Len(res.val.Dividends[1].Forecast) = 1
    /\ Len(res.val.Dividends[1].Tricast) = 1
    /\ res.val.Dividends[1].Forecast[1].Trap1 = 1
    /\ res.val.Dividends[1].Forecast[1].Trap2 = 2
    /\ res.val.Dividends[1].Tricast[1].Trap3 = 1
    /\ DividendTraps(res.val) \subseteq TrapNos(res.val)

(***************************************************************************)
(* The decode of a document, element by element                            *)
(*                                                                         *)
(* xml.Unmarshal reads the document as a stream: the decoder of an element *)
(* calls d.DecodeElement, which assigns the attributes of the start tag,   *)
(* then reads the children in document order, calling the decoder of each  *)
(* child that a field names and skipping the others, and at the end tag    *)
(* returns to the statements that follow it in UnmarshalXML.  The first    *)
(* error ends the call.  While a document is decoded op = "decoding", arg  *)
(* is [entry, doc] and res is [stack, log]: the decoders that have not     *)
(* returned, each with the index of its next child, and the paths of the   *)
(* elements read so far.                                                   *)
(***************************************************************************)
RootType(entry) == IF entry = "ParseFile" THEN "DogRacing" ELSE "RacingCard"

\* the Race elements of the documents decoded element by element: a race
\* number that is no integer fails at the start tag, a state outside the
\* race states fails after the end tag
WalkRaceElems ==
    { El(Attrs(<<<<"raceNumber", n>>, <<"type", "Flat">>, <<"state", st>>>>),
         <<Kid("Trap", El(Attrs(<<<<"trap", "1">>>>), <<Kid("Dog", DogElem)>>))>>) :
        n \in {"1", "x"}, st \in {"Off", "Done"} }

WalkMeetingElems ==
    { El(Attrs(<<<<"meetingId", "337361">>, <<"state", x[1]>>>>), Kids("Race", x[2])) :
        x \in {<<Absent, <<>>>>, <<"Closed", <<>>>>} \cup
              { <<"Active", <<r>>>> : r \in WalkRaceElems } }

\* the documents decoded element by element: greyhound documents of up to
\* MaxMeetings meetings, a meeting of the sample documents with two races,
\* documents with an element that no field names, and card documents
WalkDocs ==
    { [entry |-> "ParseFile", doc |-> El(Attrs(<<<<"type", "Card">>>>), Kids("Meeting", ms))] :
        ms \in SeqsUpTo(WalkMeetingElems, MaxMeetings) }
    \cup
    { [entry |-> "ParseFile",
       doc |-> El(Attrs(<<<<"type", "Result">>>>), Kids("Meeting", <<m>>))] :
        m \in { e \in FewMeetingElems : Len(e.kids) = 2 } }
    \cup
    { [entry |-> "ParseFile",
       doc |-> El(Attrs(<<<<"type", "">>>>),
                  <<Kid("Advert", El(<<>>, Kids("Meeting", <<m>>))), Kid("Meeting", m)>>)] :
        m \in WalkMeetingElems }
    \cup
    { [entry |-> "ParseRacingCard", doc |-> El(<<>>, Kids("Meeting", ms))] :
        ms \in SeqsUpTo(
            { El(Attrs(<<<<"id", "94521">>, <<"status", st>>>>), <<>>) :
                st \in {Absent, "Postponed"} }
            \cup
            { El(Attrs(<<<<"id", "94521">>, <<"date", "20190115">>, <<"status", "Dormant">>>>),
                 Kids("Race", <<r>>)) :
                r \in { e \in FewCardRaceElems :
                           e.kids # <<>> \/ AttrValue(e, "raceType") = "Steeple" } },
            1) }

\* the decoder that has not returned and was called last
Top == res.stack[Len(res.stack)]

\* the stream is at a start tag: of the root, or of a child of Top
AtStartTag == IF res.stack = <<>> THEN TRUE ELSE Top.next <= Len(Top.el.kids)

\* the element of that start tag: its path, and its type when a field of the
\* enclosing decoder names its tag
Pending ==
    IF res.stack = <<>>
    THEN [known |-> TRUE, type |-> RootType(arg.entry), tag |-> "", el |-> arg.doc,
          path |-> <<>>]
    ELSE [known |-> Top.el.kids[Top.next].tag \in DOMAIN KidTypes(Top.type),
          type |-> IF Top.el.kids[Top.next].tag \in DOMAIN KidTypes(Top.type)
                   THEN KidTypes(Top.type)[Top.el.kids[Top.next].tag]
                   ELSE "",
          tag |-> Top.el.kids[Top.next].tag,
          el |-> Top.el.kids[Top.next].el,
          path |-> Append(Top.path, Top.next)]

\* the start tag: the attributes assigned to the fields of data, or the
\* error of a decoder that returns without reading its element
StartTag(type, el) ==
    IF type = "Rating" THEN RatingUnmarshalXML(el)
    ELSE decodeAttrs(AttrKinds(type), AttrInit(type), el.attrs)

\* the end tag of Top: d.DecodeElement returns data and the statements that
\* follow it in the decoder run
EndTag == UnmarshalXML(Top.type, [err |-> Nil,
                                  val |-> [a |-> Top.a, k |-> Top.k, text |-> Top.el.text]])

\* the entrypoint returns
Returned(err, val, log) ==
    /\ op' = "returned"
    /\ res' = [err |-> err, val |-> val, log |-> log]
    /\ UNCHANGED arg

\* an entrypoint is called on a document
WalkStart ==
    /\ op = "idle"
    /\ \E d \in WalkDocs :
        /\ op' = "decoding"
        /\ arg' = d
        /\ res' = [stack |-> <<>>, log |-> <<>>]

\* a decoder is called on the element of the start tag and d.DecodeElement
\* assigns its attributes
WalkEnter ==
    /\ op = "decoding"
    /\ AtStartTag
    /\ Pending.known
    /\ StartTag(Pending.type, Pending.el).err = Nil
    /\ res' = [stack |-> Append(res.stack,
                                [type |-> Pending.type, tag |-> Pending.tag,
                                 el |-> Pending.el, path |-> Pending.path, next |-> 1,
                                 a |-> StartTag(Pending.type, Pending.el).val,
                                 k |-> NoKids(KidTypes(Pending.type))]),
               log |-> Append(res.log, Pending.path)]
    /\ UNCHANGED <<op, arg>>

\* an element that no field names is skipped with all it holds
WalkSkip ==
    /\ op = "decoding"
    /\ AtStartTag
    /\ ~Pending.known
    /\ res' = [stack |-> [res.stack EXCEPT ![Len(res.stack)].next = @ + 1],
               log |-> Append(res.log, Pending.path)]
    /\ UNCHANGED <<op, arg>>

\* the end tag of Top: its decoder returns its value, which is appended to
\* the field of the enclosing decoder, or returned by the entrypoint
WalkLeave ==
    /\ op = "decoding"
    /\ ~AtStartTag
    /\ EndTag.err = Nil
    /\ IF Len(res.stack) = 1
       THEN Returned(Nil, <<EndTag.val>>, res.log)
       ELSE /\ res' = [res EXCEPT
                          !.stack = [SubSeq(res.stack, 1, Len(res.stack) - 1)
                                        EXCEPT ![Len(res.stack) - 1].next = @ + 1,
                                               ![Len(res.stack) - 1].k[Top.tag] =
                                                   Append(@, EndTag.val)]]
            /\ UNCHANGED <<op, arg>>

\* a decoder that is called a second time on the element it failed on
WalkFail_Retry ==
    /\ op = "decoding"
    /\ IF AtStartTag
       THEN /\ Pending.known
            /\ StartTag(Pending.type, Pending.el).err # Nil
            /\ IF Pending.path \in { res.log[i] : i \in 1..Len(res.log) }
               THEN Returned(StartTag(Pending.type, Pending.el).err, <<>>,
                             Append(res.log, Pending.path))
               ELSE /\ res' = [res EXCEPT !.log = Append(res.log, Pending.path)]
                    /\ UNCHANGED <<op, arg>>
       ELSE /\ EndTag.err # Nil
            /\ Returned(EndTag.err, <<>>, res.log)

\* the first error, of a start tag or of the statements after
\* d.DecodeElement, is returned by every decoder up to the entrypoint, which
\* returns nil and the error
WalkFail ==
    /\ op = "decoding"
    /\ IF AtStartTag
       THEN /\ Pending.known
            /\ StartTag(Pending.type, Pending.el).err # Nil
            /\ Returned(StartTag(Pending.type, Pending.el).err, <<>>,
                        Append(res.log, Pending.path))
       ELSE /\ EndTag.err # Nil
            /\ Returned(EndTag.err, <<>>, res.log)

\* the caller takes the result
WalkReturn ==
    /\ op = "returned"
    /\ op' = "idle"
    /\ arg' = <<>>
    /\ res' = <<>>

NextWalk ==
    \/ WalkStart
    \/ WalkEnter
    \/ WalkSkip
    \/ WalkLeave
    \/ WalkFail
    \/ WalkReturn

\* a call that has started runs on: the document is in memory and the
\* decoder waits for nothing
SpecWalk ==
    Init /\ [][NextWalk]_vars /\ WF_vars(WalkEnter \/ WalkSkip \/ WalkLeave \/ WalkFail)

RECURSIVE Size(_)
\* the number of elements of a document
Size(el) ==
    LET RECURSIVE sum(_)
        sum(i) == IF i > Len(el.kids) THEN 0 ELSE Size(el.kids[i].el) + sum(i + 1)
    IN  1 + sum(1)

\* the result of the entrypoint called on the document
EntryResult(a) == IF a.entry = "ParseFile" THEN ParseFile(a.doc) ELSE ParseRacingCard(a.doc)

\* no element is read twice, and a returned call read no more elements than
\* the document has and returned what the entrypoint returns
ReadAtMostOnce ==
    /\ op \in {"decoding", "returned"} =>
          /\ \A i, j \in 1..Len(res.log) : res.log[i] = res.log[j] => i = j
          /\ Len(res.log) <= Size(arg.doc)
    /\ op = "returned" =>
          /\ res.err = EntryResult(arg).err
          /\ res.val = EntryResult(arg).val
          /\ (res.err = Nil) # (res.val = <<>>)

\* C30: decoding always terminates: for every finite input document each
\* entrypoint returns, with an object or an error, after finitely many
\* steps, reading each element of the document at most once and never
\* trying a failed decode again: a call that returned takes no further step
\* on the document.
C30_DecodingTerminates ==
    /\ []ReadAtMostOnce
    /\ (op = "decoding") ~> (op = "returned")
    /\ [][op = "returned" => op' = "idle"]_vars

\* ParseFile returned the error of a meeting before it read the rest of the
\* document
C30_Witness ==
    /\ op = "returned"
    /\ arg.entry = "ParseFile"
    /\ res.err # Nil
    /\ res.val = <<>>
    /\ Len(res.log) >= 3
    /\ Len(res.log) < Size(arg.doc)

====
